---- MODULE Spec2Model ----
(***************************************************************************)
(* Manipulator classification, validation and attribute emission of        *)
(* XPlane2Blender: XPlaneManipulator.collect() and its helpers             *)
(* (io_xplane2blender/xplane_types/xplane_manipulator.py), together with   *)
(* the logger it reports to (io_xplane2blender/xplane_helpers.py).         *)
(*                                                                         *)
(* Number representation.  The program computes with floats; the model     *)
(* uses fixed point integers:                                              *)
(*   - lengths, vector components, lift and detent heights: 1 = 0.001      *)
(*   - dot products of two such vectors:                    1 = 0.000001   *)
(*   - angles:                                              1 = 0.000001   *)
(*     degree                                                              *)
(*   - dataref values (keyframe values, range start/end):   1 = 1          *)
(***************************************************************************)
EXTENDS Integers, Sequences, FiniteSets, TLC

VARIABLES
    manip,              \* the manipulator settings (blenderObject.xplane.manip)
    xplaneBone,         \* the bone of the primitive (xplanePrimative.xplaneBone)
    version,            \* bpy.context.scene.xplane.version
    cockpitAttributes,  \* the primitive's sink: the attributes added, in order
    messages,           \* logger.messages
    pc,                 \* "ready" before collect(), then "returned" or "raised"
    transports,         \* logger.transports
    delivered,          \* the calls each transport function has received
    calls,              \* the calls made on the logger so far
    attribute,          \* an XPlaneAttribute outside any sink
    returned            \* what the last call on that attribute returned

manipulatorVars == <<manip, xplaneBone, version, cockpitAttributes, pc>>
loggerVars == <<transports, delivered, calls>>
attributeVars == <<attribute, returned>>
vars == <<manipulatorVars, messages, loggerVars, attributeVars>>

(***************************************************************************)
(* Bounds of the model.                                                    *)
(***************************************************************************)
MaxRanges == 3      \* longest axis_detent_ranges list
MaxChildren == 1    \* most children of the attached bone
MaxExtraDatarefs == 1  \* most datarefs driving a bone beyond the first

(***************************************************************************)
(* xplane_constants (manipulator type ids, versions).                      *)
(***************************************************************************)
MANIP_DRAG_XY == "drag_xy"
MANIP_DRAG_AXIS == "drag_axis"
MANIP_COMMAND == "command"
MANIP_COMMAND_AXIS == "command_axis"
MANIP_PUSH == "push"
MANIP_RADIO == "radio"
MANIP_DELTA == "delta"
MANIP_WRAP == "wrap"
MANIP_TOGGLE == "toggle"
MANIP_NOOP == "noop"
MANIP_DRAG_AXIS_PIX == "drag_axis_pix"
MANIP_COMMAND_KNOB == "command_knob"
MANIP_COMMAND_SWITCH_UP_DOWN == "command_switch_up_down"
MANIP_COMMAND_SWITCH_LEFT_RIGHT == "command_switch_left_right"
MANIP_AXIS_SWITCH_UP_DOWN == "axis_switch_up_down"
MANIP_AXIS_SWITCH_LEFT_RIGHT == "axis_switch_left_right"
MANIP_COMMAND_KNOB2 == "command_knob2"
MANIP_COMMAND_SWITCH_UP_DOWN2 == "command_switch_up_down2"
MANIP_COMMAND_SWITCH_LEFT_RIGHT2 == "command_switch_left_right2"
MANIP_DRAG_ROTATE == "drag_rotate"
MANIP_DRAG_AXIS_DETENT == "drag_axis_detent"
MANIP_UNKNOWN == "axis_knob"   \* a type tag collect() has no branch for

MOUSE_WHEEL_MANIPULATORS ==
    {MANIP_DRAG_XY, MANIP_DRAG_AXIS, MANIP_PUSH, MANIP_RADIO,
     MANIP_TOGGLE, MANIP_DELTA, MANIP_WRAP}

VERSION_900 == 900
VERSION_1050 == 1050
VERSION_1100 == 1100
VERSION_1110 == 1110

(***************************************************************************)
(* mathutils.Vector, as triples.                                           *)
(***************************************************************************)
Vec(x, y, z) == <<x, y, z>>
VSub(a, b) == <<a[1] - b[1], a[2] - b[2], a[3] - b[3]>>
Dot(a, b) == a[1] * b[1] + a[2] * b[2] + a[3] * b[3]

\* floor of the square root
RECURSIVE ISqrt(_)
ISqrt(n) ==
    IF n < 2 THEN n
    ELSE LET small == 2 * ISqrt(n \div 4)
             large == small + 1
         IN  IF large * large > n THEN small ELSE large

\* Vector.magnitude, rounded down to the model's unit of length
Magnitude(v) == ISqrt(Dot(v, v))

\* the conversion without the change of sign
VecBToXUnsigned(v) == <<v[1], v[3], v[2]>>

\* xplane_helpers.vec_b_to_x / vec_x_to_b
vec_b_to_x(v) == <<v[1], v[3], -v[2]>>
vec_x_to_b(v) == <<v[1], -v[3], v[2]>>

\* round(x, 5) of an angle: to the nearest multiple of 10 units, ties to even
Round5(d) ==
    LET q == d \div 10
        r == d % 10
    IN  IF r < 5 THEN q * 10
        ELSE IF r > 5 THEN (q + 1) * 10
        ELSE IF q % 2 = 0 THEN q * 10 ELSE (q + 1) * 10

\* the tolerance 0.01 of the orthogonality tests, in dot product units
DOT_TOLERANCE == 10000

(***************************************************************************)
(* XPlaneKeyframeCollection.  A channel is one dataref's animation of one  *)
(* bone: [dataref, axes, keyframes].  A keyframe is [value, location,      *)
(* degrees], degrees holding one signed angle per reference axis: three    *)
(* axes for an Euler rotation mode, one for axis-angle.                    *)
(***************************************************************************)
Keyframe(v, loc, deg) == [value |-> v, location |-> loc, degrees |-> deg]

getTranslationKeyframeTable(ch) ==
    [i \in 1..Len(ch.keyframes) |->
        [value |-> ch.keyframes[i].value, location |-> ch.keyframes[i].location]]

\* one (axis, table) pair per reference axis, the table of (value, degrees)
getRotationKeyframeTable(ch) ==
    [a \in 1..Len(ch.axes) |->
        <<ch.axes[a],
          [i \in 1..Len(ch.keyframes) |->
              [value |-> ch.keyframes[i].value,
               degrees |-> ch.keyframes[i].degrees[a]]]>>]

RECURSIVE SumDegrees(_)
SumDegrees(table) ==
    IF table = <<>> THEN 0 ELSE Head(table).degrees + SumDegrees(Tail(table))

\* the reference axes whose keyframe degrees do not sum to zero
ActiveAxes(ch) ==
    {a \in 1..Len(ch.axes) : SumDegrees(getRotationKeyframeTable(ch)[a][2]) # 0}

\* asAA(): the channel in axis-angle form, one axis with its signed degrees:
\* the channel itself when it has one axis, else its (first) active axis
OnAxis(ch, a) ==
    [dataref |-> ch.dataref,
     axes |-> <<ch.axes[a]>>,
     keyframes |->
         [i \in 1..Len(ch.keyframes) |->
             Keyframe(ch.keyframes[i].value, ch.keyframes[i].location,
                      <<ch.keyframes[i].degrees[a]>>)]]

FirstOf(act) == IF act = {} THEN 1 ELSE CHOOSE x \in act : \A y \in act : x <= y

asAA(ch) == IF Len(ch.axes) = 1 THEN ch ELSE OnAxis(ch, FirstOf(ActiveAxes(ch)))

\* leading keyframes equal in attr to their successor are clamps
RECURSIVE TrimFront(_, _)
TrimFront(data, attr) ==
    IF Len(data) >= 2 /\ data[1][attr] = data[2][attr]
    THEN TrimFront(Tail(data), attr)
    ELSE data

\* trailing keyframes equal in attr to their predecessor are clamps
RECURSIVE TrimBack(_, _)
TrimBack(data, attr) ==
    IF Len(data) >= 2 /\ data[Len(data)][attr] = data[Len(data) - 1][attr]
    THEN TrimBack(SubSeq(data, 1, Len(data) - 1), attr)
    ELSE data

filter_clamping_keyframes(data, attr) == TrimBack(TrimFront(data, attr), attr)

\* the filtering fails, giving the table back unchanged, when it would leave
\* fewer than 2 entries
UnlessShort(filtered, table) == IF Len(filtered) < 2 THEN table ELSE filtered

getTranslationKeyframeTableNoClamps(ch) ==
    UnlessShort(filter_clamping_keyframes(getTranslationKeyframeTable(ch), "location"),
                getTranslationKeyframeTable(ch))

(***************************************************************************)
(* XPlaneBone: [name, parent, children, animations, origin].  parent is    *)
(* <<>> (no parent) or <<bone>>; children is the number of child bones;    *)
(* animations is the ordered dataref -> keyframe collection mapping.       *)
(***************************************************************************)
NoBone == <<>>

\* some channel moves the bone
isDataRefAnimatedForTranslation(bone) ==
    \E c \in 1..Len(bone.animations) :
        \E i, j \in 1..Len(bone.animations[c].keyframes) :
            bone.animations[c].keyframes[i].location
                # bone.animations[c].keyframes[j].location

\* some channel rotates the bone
isDataRefAnimatedForRotation(bone) ==
    \E c \in 1..Len(bone.animations) :
        \E i, j \in 1..Len(bone.animations[c].keyframes) :
            bone.animations[c].keyframes[i].degrees
                # bone.animations[c].keyframes[j].degrees

\* next(iter(bone.animations.values())) and next(iter(bone.animations))
FirstAnimation(bone) == bone.animations[1]
FirstDataref(bone) == bone.animations[1].dataref

(***************************************************************************)
(* XPlaneLogger: messages are [type, message].                             *)
(***************************************************************************)
log(msgs, messageType, message) ==
    Append(msgs, [type |-> messageType, message |-> message])

error(msgs, message) == log(msgs, "error", message)
warn(msgs, message) == log(msgs, "warning", message)

info(msgs, message) == log(msgs, "info", message)
success(msgs, message) == log(msgs, "success", message)

\* addTransport: messageTypes is <<>> (None) or <<list>>; a transport is
\* [fn, types]
addTransport(trs, transport, messageTypes) ==
    Append(trs, [fn |-> transport,
                 types |-> IF messageTypes = <<>>
                           THEN <<"error", "warning", "info", "success">>
                           ELSE messageTypes[1]])

\* messageType in transport['types']
InTypes(messageType, types) == \E k \in 1..Len(types) : types[k] = messageType

\* every registered transport is called, of whatever types it is
CallTransportsOfAnyType(trs, dlv, messageType, message) ==
    [f \in 1..Len(dlv) |->
        dlv[f] \o [k \in 1..Cardinality({i \in 1..Len(trs) : trs[i].fn = f}) |->
                      [type |-> messageType, message |-> message]]]

\* for transport in self.transports: if messageType in transport['types']:
\* transport['fn'](messageType, message, context); dlv[f] is what the
\* function f has been called with
RECURSIVE CallTransports(_, _, _, _)
CallTransports(trs, dlv, messageType, message) ==
    IF trs = <<>> THEN dlv
    ELSE CallTransports(Tail(trs),
             IF InTypes(messageType, Head(trs).types)
             THEN [dlv EXCEPT ![Head(trs).fn] =
                      Append(@, [type |-> messageType, message |-> message])]
             ELSE dlv,
             messageType, message)

\* del self.transports[:] and del self.messages[:]
clearTransports(trs) == <<>>
clearMessages(msgs) == <<>>

findOfType(msgs, messageType) == SelectSeq(msgs, LAMBDA m : m.type = messageType)
findErrors(msgs) == findOfType(msgs, "error")
hasErrors(msgs) == \E i \in 1..Len(msgs) : msgs[i].type = "error"

(***************************************************************************)
(* Results of the checks: st is "ok", "fail" (an error was logged and the  *)
(* check answered False) or "raise" (the check raised an exception).       *)
(***************************************************************************)
Pass(msgs) == [st |-> "ok", msgs |-> msgs]
Fail(msgs) == [st |-> "fail", msgs |-> msgs]
Raise(msgs) == [st |-> "raise", msgs |-> msgs]

autodetect_must_be_leaf_bone(bone, msgs) ==
    IF bone.children > 0
    THEN Fail(error(msgs, "manipulator must have no children"))
    ELSE Pass(msgs)

\* the message's argument bone.getblendername() is no method of the bone:
\* building the message raises before anything is logged
autodetect_must_have_parent(bone, msgs) ==
    IF bone.parent = NoBone THEN Raise(msgs) ELSE Pass(msgs)

\* the check answering False without a word to the logger
DrivenByNDatarefsUnlogged(bone, num_datarefs, msgs) ==
    IF Len(bone.animations) # num_datarefs THEN Fail(msgs) ELSE Pass(msgs)

autodetect_must_be_driven_by_exactly_n_datarefs(bone, num_datarefs, msgs) ==
    IF Len(bone.animations) # num_datarefs
    THEN Fail(error(msgs, "location animation cannot be driven by more than n datarefs"))
    ELSE Pass(msgs)

\* the count taken as a minimum
KeyframeCountAtLeast(translation_bone, count, exclude_clamping, msgs) ==
    IF translation_bone.animations = <<>> THEN Raise(msgs)
    ELSE IF Len(getTranslationKeyframeTableNoClamps(FirstAnimation(translation_bone)))
                < count
    THEN Fail(error(msgs, "must have exactly n keyframes for its location animation"))
    ELSE Pass(msgs)

autodetect_keyframe_count_translation(translation_bone, count, exclude_clamping, msgs) ==
    IF translation_bone.animations = <<>> THEN Raise(msgs)
    ELSE IF ~(IF exclude_clamping
              THEN Len(getTranslationKeyframeTableNoClamps(
                           FirstAnimation(translation_bone))) = count
              ELSE Len(getTranslationKeyframeTable(
                           FirstAnimation(translation_bone))) = count)
    THEN Fail(error(msgs, "must have exactly n keyframes for its location animation"))
    ELSE Pass(msgs)

\* the number of authored axes, whatever their degrees
AuthoredNumAxisOfRotation(rotation_keyframe_table) == Len(rotation_keyframe_table)

\* round(x, 8) of a sum of degrees is the sum itself at the model's unit
RealNumAxisOfRotation(rotation_keyframe_table) ==
    IF Len(rotation_keyframe_table) = 3
    THEN Cardinality({a \in 1..3 : SumDegrees(rotation_keyframe_table[a][2]) # 0})
    ELSE Len(rotation_keyframe_table)

autodetect_bone_rotated_around_n_axis(bone, num_axis_of_rotation, msgs) ==
    IF bone.animations = <<>> THEN Raise(msgs)
    ELSE IF RealNumAxisOfRotation(getRotationKeyframeTable(FirstAnimation(bone)))
                # num_axis_of_rotation
    THEN Fail(error(msgs, "manipulator can only rotate around n axis"))
    ELSE Pass(msgs)

\* assert bone.parent is not None
autodetect_parent_must_be_animated_for_rotation(bone, ignore_error, msgs) ==
    IF bone.parent = NoBone THEN Raise(msgs)
    ELSE IF ~isDataRefAnimatedForRotation(bone.parent[1])
    THEN Fail(IF ~ignore_error
              THEN error(msgs, "parent must be animated with rotation")
              ELSE msgs)
    ELSE Pass(msgs)

\* a tolerance of 0.03 in place of 0.01
OrthogonalWithin3(dot_product) ==
    -3 * DOT_TOLERANCE < dot_product /\ dot_product < 3 * DOT_TOLERANCE

\* not -0.01 < dot_product < 0.01
Orthogonal(dot_product) == -DOT_TOLERANCE < dot_product /\ dot_product < DOT_TOLERANCE

\* table[1].location - table[0].location
SecondMinusFirst(table) == VSub(table[2].location, table[1].location)

\* table[-1].location - table[0].location
LastMinusFirst(table) == VSub(table[Len(table)].location, table[1].location)

\* called only on a child bone whose first channel has 2 non-clamping keyframes
autodetect_rotation_translation_animations_orthogonal(rotation_bone, child_bone, msgs) ==
    IF ~Orthogonal(Dot(
            SecondMinusFirst(
                getTranslationKeyframeTableNoClamps(FirstAnimation(child_bone))),
            getRotationKeyframeTable(asAA(FirstAnimation(rotation_bone)))[1][1]))
    THEN Fail(error(msgs, "Location animation must not be along the rotation animation axis"))
    ELSE Pass(msgs)

drag_axis_w_detents_animations_orthogonal(drag_axis_bone, detent_bone, msgs) ==
    IF ~Orthogonal(Dot(
            LastMinusFirst(getTranslationKeyframeTable(FirstAnimation(drag_axis_bone))),
            LastMinusFirst(getTranslationKeyframeTable(FirstAnimation(detent_bone)))))
    THEN Fail(error(msgs, "Location animation must not be along the main drag animation axis"))
    ELSE Pass(msgs)

\* called only on a bone whose first channel has 2 non-clamping keyframes
get_lift_at_max(translation_bone) ==
    Magnitude(SecondMinusFirst(
        getTranslationKeyframeTableNoClamps(FirstAnimation(translation_bone))))

\* [st, bone]: bone is <<b>> or NoBone; "raise" when the parent is consulted
\* and there is none
get_rotation_bone(type, bone) ==
    IF type # MANIP_DRAG_ROTATE THEN [st |-> "raise", bone |-> NoBone]
    ELSE IF isDataRefAnimatedForRotation(bone) THEN [st |-> "ok", bone |-> <<bone>>]
    ELSE IF bone.parent = NoBone THEN [st |-> "raise", bone |-> NoBone]
    ELSE IF isDataRefAnimatedForRotation(bone.parent[1])
    THEN [st |-> "ok", bone |-> bone.parent]
    ELSE [st |-> "ok", bone |-> NoBone]

\* p is autodetect_parent_must_be_animated_for_rotation(bone, ignore_error=True)
TranslationBoneIf(p, bone) ==
    IF p.st = "raise" THEN [st |-> "raise", bone |-> NoBone]
    ELSE IF p.st = "ok" /\ ~isDataRefAnimatedForRotation(bone)
    THEN [st |-> "ok", bone |-> <<bone>>]
    ELSE [st |-> "ok", bone |-> NoBone]

get_translation_bone(type, bone) ==
    IF type = MANIP_DRAG_AXIS_DETENT THEN [st |-> "ok", bone |-> <<bone>>]
    ELSE IF type = MANIP_DRAG_ROTATE
    THEN TranslationBoneIf(
             autodetect_parent_must_be_animated_for_rotation(bone, TRUE, <<>>), bone)
    ELSE [st |-> "ok", bone |-> NoBone]

(***************************************************************************)
(* validate_axis_detent_ranges, the function nested in collect().          *)
(* A range is [start, end, height].                                        *)
(***************************************************************************)
\* float('inf'), above every height
INFINITY == 1000000000

AxisDetentStruct(start, end, height) == [start |-> start, end |-> end, height |-> height]

\* Python's seq[k] for a 0-based index k, negative indices counting from the
\* end: <<TRUE, item>> or <<FALSE>> for IndexError
PyIndex(seq, k) ==
    IF 0 <= k /\ k < Len(seq) THEN <<TRUE, seq[k + 1]>>
    ELSE IF k < 0 /\ -k <= Len(seq) THEN <<TRUE, seq[Len(seq) + k + 1]>>
    ELSE <<FALSE>>

\* detent_range_next: axis_detent_ranges[i+1], or the synthetic range
DetentRangeNext(axis_detent_ranges, i, v1_max) ==
    IF PyIndex(axis_detent_ranges, i + 1)[1]
    THEN PyIndex(axis_detent_ranges, i + 1)[2]
    ELSE AxisDetentStruct(axis_detent_ranges[i + 1].end, v1_max, INFINITY)

\* detent_range_prev: axis_detent_ranges[i-1], or the synthetic range
DetentRangePrev(axis_detent_ranges, i, v1_min) ==
    IF PyIndex(axis_detent_ranges, i - 1)[1]
    THEN PyIndex(axis_detent_ranges, i - 1)[2]
    ELSE AxisDetentStruct(v1_min, axis_detent_ranges[i + 1].start, INFINITY)

\* detent_range_prev.height > detent_range.height < detent_range_next.height
PitIsLower(detent_range_prev, detent_range, detent_range_next) ==
    detent_range_prev.height > detent_range.height
        /\ detent_range.height < detent_range_next.height

\* the checks of one pass of the loop body on detent_range
CheckDetentRange(detent_range, detent_range_prev, detent_range_next, n, lift_at_max, msgs) ==
    IF ~(detent_range.start <= detent_range.end)
    THEN Fail(error(msgs, "The start of axis detent range must be less than or equal to its end"))
    ELSE IF ~(0 <= detent_range.height /\ detent_range.height <= lift_at_max)
    THEN Fail(error(msgs, "Height in axis detent range must be between 0.0 and the maximum lift height"))
    ELSE IF n = 1 /\ detent_range.start = detent_range.end
    THEN Fail(error(msgs, "Axis detent range cannot have stop pit with only one detent"))
    ELSE IF ~(detent_range.end = detent_range_next.start)
    THEN Fail(error(msgs, "the start of a detent range must be the end of the previous detent range"))
    ELSE IF detent_range.start = detent_range.end
            /\ ~PitIsLower(detent_range_prev, detent_range, detent_range_next)
    THEN Fail(error(msgs, "Stop pit must be lower than previous and next detent ranges"))
    ELSE Pass(msgs)

\* one pass of the loop body, for the 0-based index i
ValidateRangeAt(axis_detent_ranges, i, v1_min, v1_max, lift_at_max, msgs) ==
    CheckDetentRange(axis_detent_ranges[i + 1],
                     DetentRangePrev(axis_detent_ranges, i, v1_min),
                     DetentRangeNext(axis_detent_ranges, i, v1_max),
                     Len(axis_detent_ranges), lift_at_max, msgs)

\* for i in range(len(axis_detent_ranges)), from index i on; the first pass
\* that fails ends the loop
RECURSIVE ValidateRangesFrom(_, _, _, _, _, _)
ValidateRangesFrom(axis_detent_ranges, i, v1_min, v1_max, lift_at_max, msgs) ==
    IF i >= Len(axis_detent_ranges) THEN Pass(msgs)
    ELSE IF ValidateRangeAt(axis_detent_ranges, i, v1_min, v1_max,
                            lift_at_max, msgs).st # "ok"
    THEN ValidateRangeAt(axis_detent_ranges, i, v1_min, v1_max, lift_at_max, msgs)
    ELSE ValidateRangesFrom(axis_detent_ranges, i + 1, v1_min, v1_max,
                            lift_at_max, msgs)

\* len({range.height for range in axis_detent_ranges}) == 1
SameHeights(axis_detent_ranges) ==
    Cardinality({axis_detent_ranges[k].height :
                    k \in 1..Len(axis_detent_ranges)}) = 1

\* the function from its second statement on; animated is
\* translation_bone.isDataRefAnimatedForTranslation()
ValidateRanges(axis_detent_ranges, animated, v1_min, v1_max, lift_at_max, msgs) ==
    IF (~animated \/ Len(axis_detent_ranges) > 0)
           /\ (~(Len(axis_detent_ranges) > 0) /\ animated)
    THEN Fail(error(msgs, "Must have axis detent range if bone has location animation"))
    ELSE IF Len(axis_detent_ranges) = 0 THEN Raise(msgs)
    ELSE IF ~(axis_detent_ranges[1].start = v1_min)
    THEN Fail(error(msgs, "Axis detent range list must start at Dataref 1's minimum value"))
    ELSE IF ~(axis_detent_ranges[Len(axis_detent_ranges)].end = v1_max)
    THEN Fail(error(msgs, "Axis detent range list must end at Dataref 1's maximum value"))
    ELSE ValidateRangesFrom(axis_detent_ranges, 0, v1_min, v1_max, lift_at_max,
             IF SameHeights(axis_detent_ranges)
             THEN warn(msgs, "All axis detent ranges have the same height")
             ELSE msgs)

\* translation_bone is <<bone>> or NoBone (None, whose method call raises)
validate_axis_detent_ranges(axis_detent_ranges, translation_bone, v1_min, v1_max, lift_at_max, msgs) ==
    IF translation_bone = NoBone THEN Raise(msgs)
    ELSE ValidateRanges(axis_detent_ranges,
                        isDataRefAnimatedForTranslation(translation_bone[1]),
                        v1_min, v1_max, lift_at_max, msgs)

(***************************************************************************)
(* XPlaneManipulator.collect(), first half: the branch on self.type that   *)
(* computes attr and value.  A branch answers                              *)
(*   [st |-> "emit", ...]    attr and value are set, collect() goes on     *)
(*   [st |-> "return", ...]  collect() returned early                      *)
(*   [st |-> "raise", ...]   an exception left collect()                   *)
(* each with the manipulator settings and the log as the branch left them. *)
(***************************************************************************)
Return(m, msgs) == [st |-> "return", manip |-> m, msgs |-> msgs]
Raised(m, msgs) == [st |-> "raise", manip |-> m, msgs |-> msgs]

\* the outcome of a check that did not pass: it returned False or it raised
Stop(m, r) == IF r.st = "raise" THEN Raised(m, r.msgs) ELSE Return(m, r.msgs)

Emit(m, msgs, attr, value, translation_bone, v1_min, v1_max, lift_at_max, rotation_keyframe_data_cleaned) ==
    [st |-> "emit", manip |-> m, msgs |-> msgs, attr |-> attr, value |-> value,
     translation_bone |-> translation_bone, v1_min |-> v1_min, v1_max |-> v1_max,
     lift_at_max |-> lift_at_max,
     rotation_keyframe_data_cleaned |-> rotation_keyframe_data_cleaned]

\* the branches that read the settings only; v1_min, v1_max, lift_at_max and
\* the bones stay unbound (unused by the second half for these types)
EmitSimple(m, msgs, value) ==
    Emit(m, msgs, "ATTR_manip_" \o m.type, value, NoBone, 0, 0, 0, <<>>)

\* the tuple with the tooltip first and the cursor last
SimpleValueTooltipFirst(m) == <<m.tooltip, m.dataref1, m.cursor>>

SimpleValue(m) ==
    CASE m.type = MANIP_DRAG_XY ->
            <<m.cursor, m.dx, m.dy, m.v1_min, m.v1_max, m.v2_min, m.v2_max,
              m.dataref1, m.dataref2, m.tooltip>>
      [] m.type = MANIP_DRAG_AXIS ->
            <<m.cursor, m.dx, m.dy, m.dz, m.v1, m.v2, m.dataref1, m.tooltip>>
      [] m.type = MANIP_DRAG_AXIS_PIX ->
            <<m.cursor, m.dx, m.step, m.exp, m.v1, m.v2, m.dataref1, m.tooltip>>
      [] m.type = MANIP_COMMAND ->
            <<m.cursor, m.command, m.tooltip>>
      [] m.type = MANIP_COMMAND_AXIS ->
            <<m.cursor, m.dx, m.dy, m.dz, m.positive_command, m.negative_command,
              m.tooltip>>
      [] m.type \in {MANIP_COMMAND_KNOB, MANIP_COMMAND_SWITCH_UP_DOWN,
                     MANIP_COMMAND_SWITCH_LEFT_RIGHT} ->
            <<m.cursor, m.positive_command, m.negative_command, m.tooltip>>
      [] m.type \in {MANIP_COMMAND_KNOB2, MANIP_COMMAND_SWITCH_UP_DOWN2,
                     MANIP_COMMAND_SWITCH_LEFT_RIGHT2} ->
            <<m.cursor, m.command, m.tooltip>>
      [] m.type = MANIP_PUSH ->
            <<m.cursor, m.v_down, m.v_up, m.dataref1, m.tooltip>>
      [] m.type = MANIP_RADIO ->
            <<m.cursor, m.v_down, m.dataref1, m.tooltip>>
      [] m.type = MANIP_TOGGLE ->
            <<m.cursor, m.v_on, m.v_off, m.dataref1, m.tooltip>>
      [] m.type \in {MANIP_DELTA, MANIP_WRAP} ->
            <<m.cursor, m.v_down, m.v_hold, m.v1_min, m.v1_max, m.dataref1,
              m.tooltip>>
      [] m.type \in {MANIP_AXIS_SWITCH_UP_DOWN, MANIP_AXIS_SWITCH_LEFT_RIGHT} ->
            <<m.cursor, m.v1, m.v2, m.click_step, m.hold_step, m.dataref1,
              m.tooltip>>
      [] m.type = MANIP_NOOP ->
            <<m.dataref1, m.tooltip>>

SimpleTypes ==
    {MANIP_DRAG_XY, MANIP_DRAG_AXIS, MANIP_DRAG_AXIS_PIX, MANIP_COMMAND,
     MANIP_COMMAND_AXIS, MANIP_COMMAND_KNOB, MANIP_COMMAND_SWITCH_UP_DOWN,
     MANIP_COMMAND_SWITCH_LEFT_RIGHT, MANIP_COMMAND_KNOB2,
     MANIP_COMMAND_SWITCH_UP_DOWN2, MANIP_COMMAND_SWITCH_LEFT_RIGHT2,
     MANIP_PUSH, MANIP_RADIO, MANIP_TOGGLE, MANIP_DELTA, MANIP_WRAP,
     MANIP_AXIS_SWITCH_UP_DOWN, MANIP_AXIS_SWITCH_LEFT_RIGHT, MANIP_NOOP}

\* logger.error(msg) followed by a return in place of the raise
UnknownTypeReturns(m, msgs) ==
    Return(m, error(msgs, "Manipulator type is unknown or unimplemented"))

\* the else branch: logger.error(msg); raise Exception(msg)
UnknownType(m, msgs) ==
    Raised(m, error(msgs, "Manipulator type is unknown or unimplemented"))

\* "if not check(...): return", then the rest of the branch
Check(m, r, rest) == IF r.st # "ok" THEN Stop(m, r) ELSE rest

\* lines 322-334: v1_min, v1_max and value
DragAxisDetentValue(m, translation_bone, drag_axis_dataref, drag_axis_frames_cleaned, lift_at_max, msgs) ==
    Emit(m, msgs, "ATTR_manip_" \o MANIP_DRAG_AXIS,
         <<m.cursor,
           vec_b_to_x(SecondMinusFirst(drag_axis_frames_cleaned))[1],
           vec_b_to_x(SecondMinusFirst(drag_axis_frames_cleaned))[2],
           vec_b_to_x(SecondMinusFirst(drag_axis_frames_cleaned))[3],
           drag_axis_frames_cleaned[1].value, drag_axis_frames_cleaned[2].value,
           drag_axis_dataref, m.tooltip>>,
         <<translation_bone>>,
         drag_axis_frames_cleaned[1].value, drag_axis_frames_cleaned[2].value,
         lift_at_max, <<>>)

\* lines 303-320: drag_axis_frames_cleaned[1] is an IndexError on a table of
\* fewer than two keyframes
DragAxisDetentFrames(m, translation_bone, parent_bone, drag_axis_frames_cleaned, msgs) ==
    IF Len(drag_axis_frames_cleaned) < 2 THEN Raised(m, msgs)
    ELSE
    Check(m, autodetect_keyframe_count_translation(parent_bone, 2, TRUE, msgs),
    Check(m, autodetect_must_be_driven_by_exactly_n_datarefs(translation_bone, 1, msgs),
    Check(m, autodetect_keyframe_count_translation(translation_bone, 2, TRUE, msgs),
    Check(m, drag_axis_w_detents_animations_orthogonal(parent_bone, translation_bone,
                                                       msgs),
          DragAxisDetentValue(m, translation_bone, FirstDataref(parent_bone),
                              drag_axis_frames_cleaned,
                              get_lift_at_max(translation_bone), msgs)))))

\* lines 289-304
DragAxisDetentParent(m, translation_bone, parent_bone, msgs) ==
    IF ~isDataRefAnimatedForTranslation(parent_bone)
    THEN Return(m, error(msgs, "Parent must be animated for translation"))
    ELSE
    Check(m, autodetect_must_be_driven_by_exactly_n_datarefs(parent_bone, 1, msgs),
    Check(m, autodetect_must_be_driven_by_exactly_n_datarefs(translation_bone, 1, msgs),
          DragAxisDetentFrames(m, translation_bone, parent_bone,
              getTranslationKeyframeTableNoClamps(FirstAnimation(parent_bone)),
              msgs)))

\* elif self.type == MANIP_DRAG_AXIS_DETENT
CollectDragAxisDetent(m, bone, msgs) ==
    Check(m, autodetect_must_have_parent(bone, msgs),
          DragAxisDetentParent(m, get_translation_bone(m.type, bone).bone[1],
                               bone.parent[1], msgs))

(***************************************************************************)
(* elif self.type == MANIP_DRAG_ROTATE                                     *)
(***************************************************************************)
\* Python's tuple order on (value, degrees) table entries
EntryLE(a, b) == a.value < b.value \/ (a.value = b.value /\ a.degrees <= b.degrees)

RECURSIVE Insert(_, _)
Insert(e, seq) ==
    IF seq = <<>> THEN <<e>>
    ELSE IF EntryLE(e, Head(seq)) THEN <<e>> \o seq
    ELSE <<Head(seq)>> \o Insert(e, Tail(seq))

\* sorted(seq)
RECURSIVE sorted(_)
sorted(seq) == IF seq = <<>> THEN <<>> ELSE Insert(Head(seq), sorted(Tail(seq)))

\* seq[::-1]
Reverse(seq) == [i \in 1..Len(seq) |-> seq[Len(seq) + 1 - i]]

\* rotation_keyframe_data == sorted(rotation_keyframe_data) or
\* rotation_keyframe_data == sorted(rotation_keyframe_data[::-1])
KeyframesInOrder(rotation_keyframe_data) ==
    rotation_keyframe_data = sorted(rotation_keyframe_data)
        \/ rotation_keyframe_data = sorted(Reverse(rotation_keyframe_data))

\* round(lift_at_max, 5) == 0.0; a lift of the model is a multiple of 0.001
LiftIsZero(lift_at_max) == lift_at_max = 0

\* angle1 == angle2, without the rounding
ZeroDegreeRotationExact(angle1, angle2) == angle1 = angle2

\* round(angle1, 5) == round(angle2, 5)
ZeroDegreeRotation(angle1, angle2) == Round5(angle1) = Round5(angle2)

\* for entry in data: if entry.degrees == angle1: v1_min = entry.value
\* (no break: the last match stays)
V1Min(rotation_keyframe_data, angle1) ==
    LET hits == {i \in 1..Len(rotation_keyframe_data) :
                    rotation_keyframe_data[i].degrees = angle1}
    IN  rotation_keyframe_data[CHOOSE i \in hits : \A j \in hits : j <= i].value

\* for entry in reversed(data): if entry.degrees == angle2: v1_max = entry.value
V1Max(rotation_keyframe_data, angle2) ==
    LET hits == {i \in 1..Len(rotation_keyframe_data) :
                    rotation_keyframe_data[i].degrees = angle2}
    IN  rotation_keyframe_data[CHOOSE i \in hits : \A j \in hits : i <= j].value

\* if self.manip.autodetect_datarefs: the settings' datarefs are overwritten
AutodetectDatarefs(m, rotation_bone, translation_bone) ==
    IF m.autodetect_datarefs
    THEN [m EXCEPT
            !.dataref1 = FirstDataref(rotation_bone[1]),
            !.dataref2 = IF translation_bone # NoBone
                            /\ Len(translation_bone[1].animations) = 1
                         THEN FirstDataref(translation_bone[1])
                         ELSE "none"]
    ELSE m

\* a check that passed leaves the next one to answer
AndThen(r, rest) == IF r.st # "ok" THEN r ELSE rest

\* lines 368-370: the detent bone is animated under a rotating bone
DetentIsAnimated(rotation_bone, translation_bone) ==
    /\ translation_bone # NoBone
    /\ rotation_bone # NoBone
    /\ isDataRefAnimatedForRotation(rotation_bone[1])
    /\ Len(translation_bone[1].animations) > 0

\* lines 367-399: the rules of the translation bone
DragRotateTranslationRules(rotation_bone, translation_bone, msgs) ==
    IF translation_bone # NoBone
    THEN IF DetentIsAnimated(rotation_bone, translation_bone)
         THEN AndThen(autodetect_must_be_driven_by_exactly_n_datarefs(
                          translation_bone[1], 1, msgs),
              AndThen(autodetect_keyframe_count_translation(
                          translation_bone[1], 2, TRUE, msgs),
                      IF LiftIsZero(get_lift_at_max(translation_bone[1]))
                      THEN Fail(error(msgs, "detent animation has keyframes but no change between them"))
                      ELSE Pass(msgs)))
         ELSE AndThen(autodetect_must_have_parent(translation_bone[1], msgs),
                      autodetect_parent_must_be_animated_for_rotation(
                          translation_bone[1], FALSE, msgs))
    ELSE IF rotation_bone # NoBone THEN Pass(msgs)
    ELSE Fail(error(msgs, "is invalid: manipulators have specific parent-child relationships and animation requirements"))

\* lift_at_max starting at 1.0 in place of 0.0
DragRotateLiftFromOne(rotation_bone, translation_bone) ==
    IF DetentIsAnimated(rotation_bone, translation_bone)
    THEN get_lift_at_max(translation_bone[1])
    ELSE 1000

\* lift_at_max after lines 365-399, when the rules passed
DragRotateLiftAtMax(rotation_bone, translation_bone) ==
    IF DetentIsAnimated(rotation_bone, translation_bone)
    THEN get_lift_at_max(translation_bone[1])
    ELSE 0

\* lines 463-486
DragRotateValue(m, rotation_bone, translation_bone, lift_at_max, rotation_axis, rotation_keyframe_data_cleaned, angle1, angle2, v1_min, v1_max, msgs) ==
    IF v1_min = v1_max
    THEN Return(m, error(msgs, "Dataref 1's minimum cannot equal Dataref 1's maximum"))
    ELSE Emit(m, msgs, "ATTR_manip_" \o MANIP_DRAG_ROTATE,
              <<m.cursor,
                vec_b_to_x(rotation_bone[1].origin)[1],
                vec_b_to_x(rotation_bone[1].origin)[2],
                vec_b_to_x(rotation_bone[1].origin)[3],
                vec_b_to_x(rotation_axis)[1],
                vec_b_to_x(rotation_axis)[2],
                vec_b_to_x(rotation_axis)[3],
                angle1, angle2, lift_at_max, v1_min, v1_max,
                0, IF translation_bone = NoBone THEN 0 ELSE lift_at_max,
                m.dataref1, m.dataref2, m.tooltip>>,
              translation_bone, v1_min, v1_max, lift_at_max,
              rotation_keyframe_data_cleaned)

\* lines 446-461; m is the settings after lines 436-441
DragRotateAngles(m, rotation_bone, translation_bone, lift_at_max, rotation_axis, rotation_keyframe_data, rotation_keyframe_data_cleaned, angle1, angle2, msgs) ==
    IF ZeroDegreeRotation(angle1, angle2)
    THEN Return(m, error(msgs, "0 degree rotation not allowed"))
    ELSE DragRotateValue(m, rotation_bone, translation_bone, lift_at_max,
                         rotation_axis, rotation_keyframe_data_cleaned,
                         angle1, angle2,
                         V1Min(rotation_keyframe_data, angle1),
                         V1Max(rotation_keyframe_data, angle2), msgs)

\* lines 422-447
DragRotateCleaned(m, rotation_bone, translation_bone, lift_at_max, rotation_axis, rotation_keyframe_data, rotation_keyframe_data_cleaned, msgs) ==
    Check(m,
          IF translation_bone # NoBone
             /\ Len(rotation_bone[1].animations) > 0
             /\ Len(translation_bone[1].animations) > 0
          THEN autodetect_rotation_translation_animations_orthogonal(
                   rotation_bone[1], translation_bone[1], msgs)
          ELSE Pass(msgs),
          DragRotateAngles(AutodetectDatarefs(m, rotation_bone, translation_bone),
                           rotation_bone, translation_bone, lift_at_max,
                           rotation_axis, rotation_keyframe_data,
                           rotation_keyframe_data_cleaned,
                           rotation_keyframe_data_cleaned[1].degrees,
                           rotation_keyframe_data_cleaned[
                               Len(rotation_keyframe_data_cleaned)].degrees,
                           msgs))

\* lines 412-422
DragRotateTable(m, rotation_bone, translation_bone, lift_at_max, rotation_keyframe_table, msgs) ==
    IF ~KeyframesInOrder(rotation_keyframe_table[1][2])
    THEN Return(m, error(msgs, "Rotation dataref values are not in ascending or descending order"))
    ELSE DragRotateCleaned(m, rotation_bone, translation_bone, lift_at_max,
                           rotation_keyframe_table[1][1],
                           rotation_keyframe_table[1][2],
                           filter_clamping_keyframes(rotation_keyframe_table[1][2],
                                                     "degrees"),
                           msgs)

\* lines 367-410
DragRotateBones(m, rotation_bone, translation_bone, msgs) ==
    Check(m, DragRotateTranslationRules(rotation_bone, translation_bone, msgs),
    Check(m, autodetect_must_be_driven_by_exactly_n_datarefs(rotation_bone[1], 1, msgs),
    Check(m, autodetect_bone_rotated_around_n_axis(rotation_bone[1], 1, msgs),
          DragRotateTable(m, rotation_bone, translation_bone,
                          DragRotateLiftAtMax(rotation_bone, translation_bone),
                          getRotationKeyframeTable(asAA(FirstAnimation(rotation_bone[1]))),
                          msgs))))

\* lines 363-364; rb and tb are the answers of get_rotation_bone and
\* get_translation_bone
DragRotateFound(m, rb, tb, msgs) ==
    IF rb.st = "raise" \/ tb.st = "raise" THEN Raised(m, msgs)
    ELSE DragRotateBones(m, rb.bone, tb.bone, msgs)

\* elif self.type == MANIP_DRAG_ROTATE
CollectDragRotate(m, bone, msgs) ==
    DragRotateFound(m, get_rotation_bone(m.type, bone),
                    get_translation_bone(m.type, bone), msgs)

\* the branch on self.type taken whatever the enabled flag
ClassifyIgnoringEnabled(m, bone, msgs) ==
    IF m.type \in SimpleTypes THEN EmitSimple(m, msgs, SimpleValue(m))
    ELSE IF m.type = MANIP_DRAG_AXIS_DETENT THEN CollectDragAxisDetent(m, bone, msgs)
    ELSE IF m.type = MANIP_DRAG_ROTATE THEN CollectDragRotate(m, bone, msgs)
    ELSE UnknownType(m, msgs)

\* the branch on self.type, lines 227-566; a manipulator that is not enabled
\* has attr = None and collect() adds nothing
Classify(m, bone, msgs) ==
    IF ~m.enabled THEN Return(m, msgs)
    ELSE IF m.type \in SimpleTypes THEN EmitSimple(m, msgs, SimpleValue(m))
    ELSE IF m.type = MANIP_DRAG_AXIS_DETENT THEN CollectDragAxisDetent(m, bone, msgs)
    ELSE IF m.type = MANIP_DRAG_ROTATE THEN CollectDragRotate(m, bone, msgs)
    ELSE UnknownType(m, msgs)

(***************************************************************************)
(* collect(), second half (lines 568-706): the attributes added to         *)
(* xplanePrimative.cockpitAttributes, in the order of the add() calls.     *)
(***************************************************************************)
\* self.value = [value]: the value given is the first of the attribute's values
XPlaneAttribute(name, value) == [name |-> name, value |-> <<value>>, weight |-> 0]

(***************************************************************************)
(* Python values and their strings.  A string is the sequence of its       *)
(* characters.  A value is [type, v]: v is <<>> for None, the number for   *)
(* an int, 0 or 1 for a bool, the string for a str, the sequence of items  *)
(* for a tuple or a list, and for a float the decimal number               *)
(* sign * (whole + frac / 10^9) as [sign, whole, frac], sign being 1 or    *)
(* -1, whole >= 0 and 0 <= frac < 10^9.                                    *)
(***************************************************************************)
PyNone == [type |-> "NoneType", v |-> <<>>]
PyBool(b) == [type |-> "bool", v |-> IF b THEN 1 ELSE 0]
PyInt(k) == [type |-> "int", v |-> k]
PyStr(chars) == [type |-> "str", v |-> chars]
PyTuple(items) == [type |-> "tuple", v |-> items]
PyList(items) == [type |-> "list", v |-> items]
PyFloat(sign, whole, frac) ==
    [type |-> "float", v |-> [sign |-> sign, whole |-> whole, frac |-> frac]]

DigitChar(d) == <<"0", "1", "2", "3", "4", "5", "6", "7", "8", "9">>[d + 1]

\* the decimal digits of k >= 0
RECURSIVE DecimalChars(_)
DecimalChars(k) ==
    IF k < 10 THEN <<DigitChar(k)>>
    ELSE Append(DecimalChars(k \div 10), DigitChar(k % 10))

\* '%d' % k
FormatD(k) == IF k < 0 THEN <<"-">> \o DecimalChars(-k) ELSE DecimalChars(k)

\* the digits of 0 <= k < 10^width, with leading zeros
FixedDigits(k, width) ==
    [i \in 1..width |-> DigitChar((k \div (10 ^ (width - i))) % 10)]

\* str.rstrip(ch)
RECURSIVE rstrip(_, _)
rstrip(s, ch) ==
    IF s # <<>> /\ s[Len(s)] = ch THEN rstrip(SubSeq(s, 1, Len(s) - 1), ch)
    ELSE s

\* xplane_helpers.FLOAT_PRECISION
FLOAT_PRECISION == 8

\* frac / 10 to the nearest integer, ties to the even one
RoundFrac(frac) ==
    LET q == frac \div 10
        r == frac % 10
    IN  IF r < 5 THEN q
        ELSE IF r > 5 THEN q + 1
        ELSE IF q % 2 = 0 THEN q ELSE q + 1

\* round(n, FLOAT_PRECISION): [sign, whole, frac], frac now in units of
\* 10^-8; a fraction that rounds to 1 is carried
round(n) ==
    IF RoundFrac(n.frac) = 10 ^ FLOAT_PRECISION
    THEN [sign |-> n.sign, whole |-> n.whole + 1, frac |-> 0]
    ELSE [sign |-> n.sign, whole |-> n.whole, frac |-> RoundFrac(n.frac)]

\* int(n), n rounded
int(n) == n.sign * n.whole

\* ('%.' + str(FLOAT_PRECISION) + 'f') % n, n rounded and not an integer
FormatF(n) ==
    (IF n.sign < 0 THEN <<"-">> ELSE <<>>)
        \o DecimalChars(n.whole) \o <<".">> \o FixedDigits(n.frac, FLOAT_PRECISION)

\* the branches of floatToStr on the rounded n
FloatToStrUnstripped(n) ==
    IF n.frac = 0 THEN FormatD(int(n)) ELSE FormatF(n)

\* n_int == n holds when the rounded n has no fraction
FloatToStrRounded(n) ==
    IF n.frac = 0 THEN FormatD(int(n)) ELSE rstrip(FormatF(n), "0")

floatToStr(n) == FloatToStrRounded(round(n))

\* str(value) of a value that is not a float
str(value) ==
    CASE value.type = "NoneType" -> <<"N", "o", "n", "e">>
      [] value.type = "bool" ->
            IF value.v = 1 THEN <<"T", "r", "u", "e">>
            ELSE <<"F", "a", "l", "s", "e">>
      [] value.type = "int" -> FormatD(value.v)
      [] value.type = "str" -> value.v

\* '\t'.join(strings)
RECURSIVE join(_, _)
join(sep, strings) ==
    IF strings = <<>> THEN <<>>
    ELSE IF Len(strings) = 1 THEN strings[1]
    ELSE strings[1] \o sep \o join(sep, Tail(strings))

\* a == b of two values: numbers are equal by value, whatever their type
IsNumber(value) == value.type \in {"bool", "int", "float"}

IsWhole(value, k) ==
    IF value.type = "float"
    THEN value.v.frac = 0 /\ value.v.sign * value.v.whole = k
    ELSE value.v = k

RECURSIVE PyEq(_, _)
PyEq(a, b) ==
    IF IsNumber(a) /\ IsNumber(b)
    THEN IF a.type = "float" /\ b.type = "float"
         THEN \/ a.v = b.v
              \/ a.v.whole = 0 /\ a.v.frac = 0 /\ b.v.whole = 0 /\ b.v.frac = 0
         ELSE IF a.type = "float" THEN IsWhole(a, b.v)
         ELSE IsWhole(b, a.v)
    ELSE IF a.type # b.type THEN FALSE
    ELSE IF a.type \in {"tuple", "list"}
    THEN /\ Len(a.v) = Len(b.v)
         /\ \A k \in 1..Len(a.v) : PyEq(a.v[k], b.v[k])
    ELSE a.v = b.v

\* value in self.value
InValues(value, values) == \E k \in 1..Len(values) : PyEq(values[k], value)

(***************************************************************************)
(* XPlaneAttribute's methods; i is the 0-based index.                      *)
(***************************************************************************)
addValue(attr, value) ==
    IF ~InValues(value, attr.value)
    THEN [attr EXCEPT !.value = Append(@, value)]
    ELSE attr

setValue(attr, value, i) == [attr EXCEPT !.value[i + 1] = value]

getValue(attr, i) == attr.value[i + 1]

\* the items of a list or tuple value, as strings
ItemStrings(items) ==
    [k \in 1..Len(items) |->
        IF items[k].type = "float" THEN floatToStr(items[k].v)
        ELSE str(items[k])]

\* None rendered by str() like any other value
ValueAsStringOfNone(value) ==
    IF value.type = "float" THEN floatToStr(value.v)
    ELSE IF value.type \in {"list", "tuple"} THEN join(<<"\t">>, ItemStrings(value.v))
    ELSE str(value)

\* the branches of getValueAsString on value
ValueAsString(value) ==
    IF value.type = "NoneType" THEN <<>>
    ELSE IF value.type = "float" THEN floatToStr(value.v)
    ELSE IF value.type \in {"int", "bool"} THEN str(value)
    ELSE IF value.type = "list" \/ (value.type = "tuple" /\ Len(value.v) > 0)
    THEN join(<<"\t">>, ItemStrings(value.v))
    ELSE IF value.type # "str" THEN <<>>
    ELSE value.v

getValueAsString(attr, i) == ValueAsString(getValue(attr, i))

\* o += self.getValueAsString(i), from index i on
RECURSIVE ValuesAsStringFrom(_, _)
ValuesAsStringFrom(attr, i) ==
    IF i >= Len(attr.value) THEN <<>>
    ELSE getValueAsString(attr, i) \o ValuesAsStringFrom(attr, i + 1)

getValuesAsString(attr) == ValuesAsStringFrom(attr, 0)

\* the decimal digits of a version, as the characters of its string
RECURSIVE Digits(_)
Digits(n) == IF n < 10 THEN <<n>> ELSE Append(Digits(n \div 10), n % 10)

\* Python's a >= b on strings of digits
RECURSIVE StrGE(_, _)
StrGE(a, b) ==
    IF b = <<>> THEN TRUE
    ELSE IF a = <<>> THEN FALSE
    ELSE IF Head(a) # Head(b) THEN Head(a) > Head(b)
    ELSE StrGE(Tail(a), Tail(b))

\* the threshold one release early
VerGeDetent1100(ver) == ver >= VERSION_1100

\* int(bpy.context.scene.xplane.version) >= int(VERSION_1110)
VerGeDetent(ver) == ver >= VERSION_1110

\* bpy.context.scene.xplane.version >= VERSION_1050, on the strings
VerGeWheel(ver) == StrGE(Digits(ver), Digits(VERSION_1050))

\* 2. ATTR_axis_detented (DRAG_AXIS_DETENT)
AxisDetentedOf(detent_axis_dataref, detent_axis_frames_cleaned) ==
    XPlaneAttribute("ATTR_axis_detented",
        <<vec_b_to_x(SecondMinusFirst(detent_axis_frames_cleaned))[1],
          vec_b_to_x(SecondMinusFirst(detent_axis_frames_cleaned))[2],
          vec_b_to_x(SecondMinusFirst(detent_axis_frames_cleaned))[3],
          detent_axis_frames_cleaned[1].value, detent_axis_frames_cleaned[2].value,
          detent_axis_dataref>>)

AxisDetented(translation_bone) ==
    AxisDetentedOf(FirstDataref(translation_bone),
        getTranslationKeyframeTableNoClamps(FirstAnimation(translation_bone)))

\* 3. for axis_detent_range in self.manip.axis_detent_ranges
DetentRangeAttributes(axis_detent_ranges) ==
    [i \in 1..Len(axis_detent_ranges) |->
        XPlaneAttribute("ATTR_axis_detent_range",
            <<axis_detent_ranges[i].start, axis_detent_ranges[i].end,
              axis_detent_ranges[i].height>>)]

\* if len(self.manip.axis_detent_ranges) > 0: validate, and return on failure
ValidateIfAny(axis_detent_ranges, translation_bone, v1_min, v1_max, lift_at_max, msgs) ==
    IF Len(axis_detent_ranges) > 0
    THEN validate_axis_detent_ranges(axis_detent_ranges, translation_bone,
                                     v1_min, v1_max, lift_at_max, msgs)
    ELSE Pass(msgs)

\* a keyframe directive for every cleaned keyframe, first and last included
KeyframeAttributesOfAll(type, cleaned) ==
    IF type = MANIP_DRAG_ROTATE /\ Len(cleaned) > 2
    THEN [i \in 1..Len(cleaned) |->
            XPlaneAttribute("ATTR_manip_keyframe",
                <<cleaned[i].value, cleaned[i].degrees>>)]
    ELSE <<>>

\* 4. All ATTR_manip_keyframes (DRAG_ROTATE): rotation_keyframe_data_cleaned[1:-1]
KeyframeAttributes(type, cleaned) ==
    IF type = MANIP_DRAG_ROTATE /\ Len(cleaned) > 2
    THEN [i \in 1..(Len(cleaned) - 2) |->
            XPlaneAttribute("ATTR_manip_keyframe",
                <<cleaned[i + 1].value, cleaned[i + 1].degrees>>)]
    ELSE <<>>

\* add mouse wheel delta
WheelAttributes(m, ver) ==
    IF m.type \in MOUSE_WHEEL_MANIPULATORS /\ VerGeWheel(ver) /\ m.wheel_delta # 0
    THEN <<XPlaneAttribute("ATTR_manip_wheel", m.wheel_delta)>>
    ELSE <<>>

\* the types that take axis detent ranges
DetentTypes == {MANIP_DRAG_AXIS_DETENT, MANIP_DRAG_ROTATE}

\* lines 571-588: the attributes added before the ranges are validated
PrimaryAttributes(c, ver) ==
    IF c.manip.type = MANIP_DRAG_AXIS_DETENT /\ VerGeDetent(ver)
    THEN <<XPlaneAttribute(c.attr, c.value), AxisDetented(c.translation_bone[1])>>
    ELSE <<XPlaneAttribute(c.attr, c.value)>>

\* lines 591, 689-691
Validation(c, ver) ==
    IF c.manip.type \in DetentTypes /\ VerGeDetent(ver)
    THEN ValidateIfAny(c.manip.axis_detent_ranges, c.translation_bone,
                       c.v1_min, c.v1_max, c.lift_at_max, c.msgs)
    ELSE Pass(c.msgs)

\* the keyframes added ahead of the ranges
LaterAttributesKeyframesFirst(c, ver) ==
    KeyframeAttributes(c.manip.type, c.rotation_keyframe_data_cleaned)
        \o (IF c.manip.type \in DetentTypes /\ VerGeDetent(ver)
            THEN DetentRangeAttributes(c.manip.axis_detent_ranges)
            ELSE <<>>)
        \o WheelAttributes(c.manip, ver)

\* lines 693-706: the attributes added once the ranges passed
LaterAttributes(c, ver) ==
    (IF c.manip.type \in DetentTypes /\ VerGeDetent(ver)
     THEN DetentRangeAttributes(c.manip.axis_detent_ranges)
     ELSE <<>>)
        \o KeyframeAttributes(c.manip.type, c.rotation_keyframe_data_cleaned)
        \o WheelAttributes(c.manip, ver)

\* v is the answer of the validation of the ranges
AfterValidation(c, ver, added, v) ==
    IF v.st = "raise" THEN [st |-> "raise", attrs |-> added, msgs |-> v.msgs]
    ELSE IF v.st = "fail" THEN [st |-> "return", attrs |-> added, msgs |-> v.msgs]
    ELSE [st |-> "return", attrs |-> added \o LaterAttributes(c, ver),
          msgs |-> v.msgs]

\* [st, attrs, msgs], st "return" or "raise"; c is the "emit" answer of Classify
AddAttributes(c, ver) ==
    AfterValidation(c, ver, PrimaryAttributes(c, ver), Validation(c, ver))

\* if attr is not None
Finish(c, ver, e) ==
    IF c.st # "emit"
    THEN [st |-> c.st, manip |-> c.manip, attrs |-> <<>>, msgs |-> c.msgs]
    ELSE [st |-> e.st, manip |-> c.manip, attrs |-> e.attrs, msgs |-> e.msgs]

Classified(c, ver) == Finish(c, ver, AddAttributes(c, ver))

\* XPlaneManipulator.collect(): [st, manip, attrs, msgs]
collect(m, bone, ver, msgs) == Classified(Classify(m, bone, msgs), ver)

(***************************************************************************)
(* The scenes collect() is run on.                                         *)
(***************************************************************************)
O == Vec(0, 0, 0)
AxisX == Vec(1000, 0, 0)
AxisY == Vec(0, 1000, 0)
AxisZ == Vec(0, 0, 1000)
EulerAxes == <<AxisX, AxisY, AxisZ>>

\* a channel that moves the bone and does not rotate it
TranslationChannel(dataref, track) ==
    [dataref |-> dataref, axes |-> EulerAxes,
     keyframes |-> [i \in 1..Len(track[1]) |->
                       Keyframe(track[1][i], track[2][i], <<0, 0, 0>>)]]

\* a channel that rotates the bone about one axis (axis-angle mode)
RotationChannelAA(dataref, axis, track) ==
    [dataref |-> dataref, axes |-> <<axis>>,
     keyframes |-> [i \in 1..Len(track[1]) |->
                       Keyframe(track[1][i], O, <<track[2][i]>>)]]

\* a channel that rotates the bone in an Euler mode: degrees per X, Y, Z
RotationChannelEuler(dataref, track) ==
    [dataref |-> dataref, axes |-> EulerAxes,
     keyframes |-> [i \in 1..Len(track[1]) |->
                       Keyframe(track[1][i], O, track[2][i])]]

Deg(d) == d * 1000000

\* (values, locations) of the detent bone's animation
DetentY == <<<<0, 1>>, <<O, Vec(0, 1000, 0)>>>>
DetentTracks ==
    {DetentY,                                                   \* orthogonal
     <<<<0, 1>>, <<O, Vec(5, 0, 5)>>>>,                         \* dot 0.005
     <<<<0, 1>>, <<O, Vec(10, 0, 10)>>>>,                       \* dot 0.01
     <<<<0, 1>>, <<O, Vec(20, 0, 20)>>>>,                       \* dot 0.02
     <<<<0, 1>>, <<O, Vec(-20, 0, -20)>>>>,                     \* dot -0.02
     <<<<-1, 0, 1, 2>>, <<O, O, Vec(0, 1000, 0), Vec(0, 1000, 0)>>>>,  \* clamped
     <<<<0, 1, 2>>, <<O, Vec(0, 500, 0), Vec(0, 1000, 0)>>>>,   \* 3 keyframes
     <<<<0, 1>>, <<O, O>>>>,                                    \* no movement
     <<<<0>>, <<O>>>>}                                          \* one keyframe

\* (values, locations) of the drag axis bone's animation
DragX == <<<<0, 10>>, <<O, Vec(1000, 0, 0)>>>>
DragTracks ==
    {DragX,
     <<<<-5, 0, 10, 15>>, <<O, O, Vec(1000, 0, 0), Vec(1000, 0, 0)>>>>,
     <<<<0, 5, 10>>, <<O, Vec(500, 0, 0), Vec(1000, 0, 0)>>>>,
     <<<<0, 10>>, <<O, O>>>>,
     <<<<0>>, <<O>>>>}

\* (values, degrees) of a rotation about one axis
Rot0To90 == <<<<0, 10>>, <<0, Deg(90)>>>>
RotationTracks ==
    {Rot0To90,
     <<<<0, 10>>, <<Deg(90), 0>>>>,                  \* clockwise
     <<<<10, 0>>, <<Deg(90), 0>>>>,                  \* values descending
     <<<<0, 5, 10>>, <<0, Deg(45), Deg(90)>>>>,      \* one interior keyframe
     <<<<0, 3, 6, 10>>, <<0, Deg(30), Deg(60), Deg(90)>>>>,  \* two interior keyframes
     <<<<-5, 0, 10, 15>>, <<0, 0, Deg(90), Deg(90)>>>>,  \* clamped
     <<<<0, 5, 10>>, <<0, Deg(90), 0>>>>,            \* back to the start
     <<<<0, 3, 6, 10>>, <<0, Deg(45), 0, Deg(90)>>>>,  \* back and on
     <<<<0, 10>>, <<0, 4>>>>,                        \* 0.000004 degrees
     <<<<0, 5, 10>>, <<0, Deg(90), Deg(90) + 4>>>>,  \* clamp but for 0.000004
     <<<<0, 10>>, <<0, 0>>>>,                        \* no rotation
     <<<<0, 10, 5>>, <<0, Deg(45), Deg(90)>>>>,      \* values out of order
     <<<<0, 0>>, <<0, Deg(90)>>>>,                   \* one value twice
     <<<<0>>, <<Deg(90)>>>>}                         \* one keyframe

\* (values, (X, Y, Z) degrees) of rotations in an Euler mode
EulerTracks ==
    {<<<<0, 10>>, <<<<0, 0, 0>>, <<0, 0, Deg(90)>>>>>>,            \* about Z
     <<<<0, 10>>, <<<<0, 0, 0>>, <<Deg(90), 0, Deg(90)>>>>>>,      \* about X and Z
     <<<<0, 10>>, <<<<-Deg(45), 0, 0>>, <<Deg(45), 0, Deg(90)>>>>>>,  \* X sums to 0
     <<<<0, 10>>, <<<<0, 0, -Deg(45)>>, <<0, 0, Deg(45)>>>>>>}        \* Z sums to 0

DetentChannels == {TranslationChannel("sim/detent", t) : t \in DetentTracks}
DragChannels == {TranslationChannel("sim/drag", t) : t \in DragTracks}
RotationChannels ==
    {RotationChannelAA("sim/rot", AxisZ, t) : t \in RotationTracks}
        \cup {RotationChannelEuler("sim/rot", t) : t \in EulerTracks}

\* a further dataref driving the bone
ExtraChannel(i) ==
    TranslationChannel(IF i = 1 THEN "sim/extra1"
                       ELSE IF i = 2 THEN "sim/extra2" ELSE "sim/extra3",
                       <<<<0, 1>>, <<O, Vec(0, 0, 100)>>>>)

WithExtra(ch, k) == <<ch>> \o [i \in 1..k |-> ExtraChannel(i)]

Bone(name, parent, children, animations) ==
    [name |-> name, parent |-> parent, children |-> children,
     animations |-> animations, origin |-> Vec(100, 200, 300)]

\* the settings that no rule reads are the same in every scene
Manip(type, enabled, autodetect_datarefs, axis_detent_ranges, wheel_delta) ==
    [type |-> type, enabled |-> enabled,
     autodetect_datarefs |-> autodetect_datarefs,
     axis_detent_ranges |-> axis_detent_ranges, wheel_delta |-> wheel_delta,
     cursor |-> "hand", tooltip |-> "tip",
     dx |-> 1, dy |-> 2, dz |-> 3, v1 |-> 4, v2 |-> 5,
     v1_min |-> 6, v1_max |-> 7, v2_min |-> 8, v2_max |-> 9,
     dataref1 |-> "sim/user1", dataref2 |-> "sim/user2",
     command |-> "cmd", positive_command |-> "cmd_pos",
     negative_command |-> "cmd_neg",
     v_down |-> 10, v_up |-> 11, v_on |-> 12, v_off |-> 13, v_hold |-> 14,
     step |-> 15, exp |-> 16, click_step |-> 17, hold_step |-> 18]

Scene(m, bone, ver) == [manip |-> m, bone |-> bone, version |-> ver]

AxisDetentRange(start, end, height) == [start |-> start, end |-> end, height |-> height]

AllTypes == SimpleTypes \cup {MANIP_DRAG_AXIS_DETENT, MANIP_DRAG_ROTATE, MANIP_UNKNOWN}
Versions == {VERSION_900, VERSION_1050, VERSION_1100, VERSION_1110}

\* every type, enabled or not, with and without a wheel delta, on a bare bone
SettingsScenes ==
    {Scene(Manip(t, en, FALSE, <<>>, w), Bone("bone", NoBone, 0, <<>>), ver) :
        t \in AllTypes, en \in BOOLEAN, w \in {0, 1}, ver \in Versions}

\* the range lists of the scenes that vary the bones
FewRangeLists ==
    {<<>>, <<AxisDetentRange(0, 10, 1000)>>, <<AxisDetentRange(0, 10, 0)>>,
     <<AxisDetentRange(0, 5, 0)>>}

\* the animations of the attached bone
AttachedAnimations ==
    {<<>>}
        \cup {<<ch>> : ch \in DetentChannels \cup RotationChannels}
        \cup {WithExtra(TranslationChannel("sim/detent", DetentY), k) :
                 k \in 1..MaxExtraDatarefs}
        \cup {WithExtra(RotationChannelAA("sim/rot", AxisZ, Rot0To90), k) :
                 k \in 1..MaxExtraDatarefs}

\* the parent of the attached bone
Parents ==
    {NoBone, <<Bone("parent", NoBone, 1, <<>>)>>}
        \cup {<<Bone("parent", NoBone, 1, <<ch>>)>> :
                 ch \in DragChannels \cup RotationChannels}
        \cup {<<Bone("parent", NoBone, 1,
                     WithExtra(TranslationChannel("sim/drag", DragX), k))>> :
                 k \in 1..MaxExtraDatarefs}
        \cup {<<Bone("parent", NoBone, 1,
                     WithExtra(RotationChannelAA("sim/rot", AxisZ, Rot0To90), k))>> :
                 k \in 1..MaxExtraDatarefs}

\* the two types that read the bones, on every bone
BoneScenes ==
    {Scene(Manip(t, TRUE, ad, rs, 1), Bone("bone", p, n, a), ver) :
        t \in {MANIP_DRAG_AXIS_DETENT, MANIP_DRAG_ROTATE}, ad \in BOOLEAN,
        rs \in FewRangeLists, p \in Parents, n \in 0..MaxChildren,
        a \in AttachedAnimations, ver \in {VERSION_1100, VERSION_1110}}

\* the ranges the lists of the detent scenes are made of: the three pieces of
\* [0, 10] split at 5, low and high, the whole interval, pits at both ends,
\* and ranges that break a bound
DetentRanges ==
    {AxisDetentRange(r[1], r[2], h) :
        r \in {<<0, 5>>, <<5, 5>>, <<5, 10>>}, h \in {200, 1000}}
        \cup {AxisDetentRange(0, 10, 1000), AxisDetentRange(0, 10, 0),
              AxisDetentRange(0, 0, 200), AxisDetentRange(10, 10, 200),
              AxisDetentRange(10, 5, 1000), AxisDetentRange(5, 10, 1500),
              AxisDetentRange(0, 5, -100)}

\* a drag axis of dataref values 0..10 with a detent of lift 1.0
DetentOnDragAxis == Bone("bone", <<Bone("parent", NoBone, 1,
                             <<TranslationChannel("sim/drag", DragX)>>)>>, 0,
                         <<TranslationChannel("sim/detent", DetentY)>>)

\* a rotation of dataref values 0..10 with a detent of lift 1.0
DetentOnRotation == Bone("bone", <<Bone("parent", NoBone, 1,
                             <<RotationChannelAA("sim/rot", AxisZ, Rot0To90)>>)>>, 0,
                         <<TranslationChannel("sim/detent", DetentY)>>)

\* the two well-formed detent manipulators, with the range list rs
DetentScenes(rs) ==
    {Scene(Manip(MANIP_DRAG_AXIS_DETENT, TRUE, FALSE, rs, 0),
           DetentOnDragAxis, VERSION_1110),
     Scene(Manip(MANIP_DRAG_ROTATE, TRUE, FALSE, rs, 0),
           DetentOnRotation, VERSION_1110)}

(***************************************************************************)
(* The state machine: one collect() per scene.                             *)
(***************************************************************************)
\* a logger without transports, on which nothing was called
NoTransports == transports = <<>> /\ delivered = <<>> /\ calls = <<>>

\* no attribute outside the sink
NoAttribute == attribute = <<>> /\ returned = <<>>

InitOn(scenes) ==
    /\ \E sc \in scenes :
        /\ manip = sc.manip
        /\ xplaneBone = sc.bone
        /\ version = sc.version
    /\ cockpitAttributes = <<>>
    /\ messages = <<>>
    /\ pc = "ready"
    /\ NoTransports
    /\ NoAttribute

\* every range list of up to MaxRanges ranges on the detent scenes
InitDetent ==
    \E k \in 0..MaxRanges : \E rs \in [1..k -> DetentRanges] :
        InitOn(DetentScenes(rs))

Init == InitOn(SettingsScenes) \/ InitOn(BoneScenes) \/ InitDetent

Outcome(r) ==
    /\ manip' = r.manip
    /\ cockpitAttributes' = cockpitAttributes \o r.attrs
    /\ messages' = r.msgs
    /\ pc' = IF r.st = "raise" THEN "raised" ELSE "returned"

Collect ==
    /\ pc = "ready"
    /\ Outcome(collect(manip, xplaneBone, version, messages))
    /\ UNCHANGED <<xplaneBone, version, loggerVars, attributeVars>>

Next == Collect

Spec == Init /\ [][Next]_vars

(***************************************************************************)
(* The logger on its own: any sequence of calls of error, warn, info,      *)
(* success, addTransport, clearMessages, clearTransports and clear.        *)
(***************************************************************************)
MaxCalls == 4        \* most calls on the logger
MaxTransports == 2   \* most transports added

Messages == {"first", "second"}

\* the messageTypes arguments: None, and lists of one, two and no types
MessageTypeLists ==
    {<<>>, <<<<"error">>>>, <<<<"warning", "info">>>>, <<<<>>>>}

\* a manipulator that is not being collected
NoCollect ==
    /\ manip = Manip(MANIP_NOOP, FALSE, FALSE, <<>>, 0)
    /\ xplaneBone = Bone("bone", NoBone, 0, <<>>)
    /\ version = VERSION_1110
    /\ cockpitAttributes = <<>>
    /\ pc = "ready"

\* XPlaneLogger()
InitLogger ==
    /\ NoCollect
    /\ NoAttribute
    /\ messages = <<>>
    /\ NoTransports

Call(op, messageType, message, messageTypes) ==
    [op |-> op, type |-> messageType, message |-> message, types |-> messageTypes]

\* logger.error(message)
LoggerError ==
    /\ Len(calls) < MaxCalls
    /\ \E message \in Messages :
        /\ messages' = error(messages, message)
        /\ delivered' = CallTransports(transports, delivered, "error", message)
        /\ calls' = Append(calls, Call("log", "error", message, <<>>))
    /\ UNCHANGED <<transports, manipulatorVars, attributeVars>>

\* logger.warn(message)
LoggerWarn ==
    /\ Len(calls) < MaxCalls
    /\ \E message \in Messages :
        /\ messages' = warn(messages, message)
        /\ delivered' = CallTransports(transports, delivered, "warning", message)
        /\ calls' = Append(calls, Call("log", "warning", message, <<>>))
    /\ UNCHANGED <<transports, manipulatorVars, attributeVars>>

\* logger.info(message)
LoggerInfo ==
    /\ Len(calls) < MaxCalls
    /\ \E message \in Messages :
        /\ messages' = info(messages, message)
        /\ delivered' = CallTransports(transports, delivered, "info", message)
        /\ calls' = Append(calls, Call("log", "info", message, <<>>))
    /\ UNCHANGED <<transports, manipulatorVars, attributeVars>>

\* logger.success(message)
LoggerSuccess ==
    /\ Len(calls) < MaxCalls
    /\ \E message \in Messages :
        /\ messages' = success(messages, message)
        /\ delivered' = CallTransports(transports, delivered, "success", message)
        /\ calls' = Append(calls, Call("log", "success", message, <<>>))
    /\ UNCHANGED <<transports, manipulatorVars, attributeVars>>

\* logger.addTransport(fn, messageTypes) of a function not yet registered
LoggerAddTransport ==
    /\ Len(calls) < MaxCalls
    /\ Len(delivered) < MaxTransports
    /\ \E messageTypes \in MessageTypeLists :
        /\ transports' = addTransport(transports, Len(delivered) + 1, messageTypes)
        /\ calls' = Append(calls, Call("addTransport", "", "", messageTypes))
    /\ delivered' = Append(delivered, <<>>)
    /\ UNCHANGED <<messages, manipulatorVars, attributeVars>>

LoggerClearTransports ==
    /\ Len(calls) < MaxCalls
    /\ transports' = clearTransports(transports)
    /\ calls' = Append(calls, Call("clearTransports", "", "", <<>>))
    /\ UNCHANGED <<messages, delivered, manipulatorVars, attributeVars>>

LoggerClearMessages ==
    /\ Len(calls) < MaxCalls
    /\ messages' = clearMessages(messages)
    /\ calls' = Append(calls, Call("clearMessages", "", "", <<>>))
    /\ UNCHANGED <<transports, delivered, manipulatorVars, attributeVars>>

\* clear(): clearTransports() and clearMessages()
LoggerClear ==
    /\ Len(calls) < MaxCalls
    /\ transports' = clearTransports(transports)
    /\ messages' = clearMessages(messages)
    /\ calls' = Append(calls, Call("clear", "", "", <<>>))
    /\ UNCHANGED <<delivered, manipulatorVars, attributeVars>>

NextLogger ==
    \/ LoggerError
    \/ LoggerWarn
    \/ LoggerInfo
    \/ LoggerSuccess
    \/ LoggerAddTransport
    \/ LoggerClearTransports
    \/ LoggerClearMessages
    \/ LoggerClear

SpecLogger == InitLogger /\ [][NextLogger]_vars

(***************************************************************************)
(* An attribute on its own: XPlaneAttribute(name, value), then any         *)
(* sequence of addValue, setValue, getValueAsString and getValuesAsString. *)
(***************************************************************************)
MaxValues == 2   \* most values of the attribute

\* the floats: 1.0, 1.5, 0.100000001, 120.0, 100.25, -0.5, -2.0, 0.0,
\* -0.000000004, 0.999999996, 0.001953125, 0.005859375, 0.00000001, 3.10,
\* -7.000000016.  A float is a binary fraction: of the decimals whose ninth
\* digit is a 5 with nothing behind it only those that are one (here 2^-9 and
\* 3 * 2^-9) are floats, and round() takes them to the even neighbour.
Floats ==
    <<PyFloat(1, 1, 0), PyFloat(1, 1, 500000000), PyFloat(1, 0, 100000001),
      PyFloat(1, 120, 0), PyFloat(1, 100, 250000000), PyFloat(-1, 0, 500000000),
      PyFloat(-1, 2, 0), PyFloat(1, 0, 0), PyFloat(-1, 0, 4),
      PyFloat(1, 0, 999999996), PyFloat(1, 0, 1953125), PyFloat(1, 0, 5859375),
      PyFloat(1, 0, 10), PyFloat(1, 3, 100000000), PyFloat(-1, 7, 16)>>

\* the values that are not floats: None, True, False, 0, -12, 120, 'hand',
\* '', ('hand', 1.5, 2, None) and ()
OtherValues ==
    <<PyNone, PyBool(TRUE), PyBool(FALSE), PyInt(0), PyInt(-12), PyInt(120),
      PyStr(<<"h", "a", "n", "d">>), PyStr(<<>>),
      PyTuple(<<PyStr(<<"h", "a", "n", "d">>), PyFloat(1, 1, 500000000),
                PyInt(2), PyNone>>),
      PyTuple(<<>>)>>

AttributeValues == Floats \o OtherValues

Returned(call, i, result) == <<[call |-> call, i |-> i, result |-> result]>>

\* XPlaneAttribute(name, value)
InitAttribute ==
    /\ NoCollect
    /\ messages = <<>>
    /\ NoTransports
    /\ \E k \in 1..Len(AttributeValues) :
           attribute = XPlaneAttribute("ATTR_name", AttributeValues[k])
    /\ returned = <<>>

AttributeAddValue ==
    /\ Len(attribute.value) < MaxValues
    /\ \E k \in 1..Len(AttributeValues) :
           attribute' = addValue(attribute, AttributeValues[k])
    /\ returned' = <<>>
    /\ UNCHANGED <<manipulatorVars, messages, loggerVars>>

AttributeSetValue ==
    /\ \E k \in 1..Len(AttributeValues), i \in 0..(Len(attribute.value) - 1) :
           attribute' = setValue(attribute, AttributeValues[k], i)
    /\ returned' = <<>>
    /\ UNCHANGED <<manipulatorVars, messages, loggerVars>>

AttributeGetValueAsString ==
    /\ \E i \in 0..(Len(attribute.value) - 1) :
           returned' = Returned("getValueAsString", i, getValueAsString(attribute, i))
    /\ UNCHANGED <<attribute, manipulatorVars, messages, loggerVars>>

AttributeGetValuesAsString ==
    /\ returned' = Returned("getValuesAsString", 0, getValuesAsString(attribute))
    /\ UNCHANGED <<attribute, manipulatorVars, messages, loggerVars>>

NextAttribute ==
    \/ AttributeAddValue
    \/ AttributeSetValue
    \/ AttributeGetValueAsString
    \/ AttributeGetValuesAsString

SpecAttribute == InitAttribute /\ [][NextAttribute]_vars

(***************************************************************************)
(* What a state says about the collect() that led to it.                   *)
(***************************************************************************)
Collected == pc # "ready"

RecognizedTypes == SimpleTypes \cup DetentTypes

ErrorReported(message) ==
    \E i \in 1..Len(messages) :
        messages[i] = [type |-> "error", message |-> message]

AttributeNames == {cockpitAttributes[i].name : i \in 1..Len(cockpitAttributes)}

\* the detent bone of a drag_rotate manipulator is the attached bone, under
\* a rotating parent and not itself rotating
HasDetentBone ==
    \/ manip.type = MANIP_DRAG_AXIS_DETENT
    \/ /\ manip.type = MANIP_DRAG_ROTATE
       /\ xplaneBone.parent # NoBone
       /\ isDataRefAnimatedForRotation(xplaneBone.parent[1])
       /\ ~isDataRefAnimatedForRotation(xplaneBone)

\* the direction of the attached bone's first channel
DetentDirection ==
    LastMinusFirst(getTranslationKeyframeTable(FirstAnimation(xplaneBone)))

OutsideTolerance(dot_product) ==
    dot_product < -DOT_TOLERANCE \/ dot_product > DOT_TOLERANCE

\* a drag_axis_detent whose drag axis and detent directions are not orthogonal
DragAxisNotOrthogonal ==
    /\ manip.enabled
    /\ manip.type = MANIP_DRAG_AXIS_DETENT
    /\ xplaneBone.parent # NoBone
    /\ xplaneBone.parent[1].animations # <<>>
    /\ xplaneBone.animations # <<>>
    /\ OutsideTolerance(Dot(
           LastMinusFirst(getTranslationKeyframeTable(
               FirstAnimation(xplaneBone.parent[1]))),
           DetentDirection))

\* a drag_rotate whose animated detent bone moves along the rotation axis
DragRotateNotOrthogonal ==
    /\ manip.enabled
    /\ manip.type = MANIP_DRAG_ROTATE
    /\ HasDetentBone
    /\ isDataRefAnimatedForTranslation(xplaneBone)
    /\ OutsideTolerance(Dot(
           DetentDirection,
           asAA(FirstAnimation(xplaneBone.parent[1])).axes[1]))

\* the rotation bone of a drag_rotate manipulator: <<bone>> or NoBone
RotationBone ==
    IF isDataRefAnimatedForRotation(xplaneBone) THEN <<xplaneBone>>
    ELSE IF xplaneBone.parent # NoBone
            /\ isDataRefAnimatedForRotation(xplaneBone.parent[1])
    THEN xplaneBone.parent
    ELSE NoBone

\* the rotation keyframes after clamp filtering
CleanedRotation ==
    filter_clamping_keyframes(
        getRotationKeyframeTable(asAA(FirstAnimation(RotationBone[1])))[1][2],
        "degrees")

\* a drag_rotate whose first and last angle are equal at 5 decimals
RotationOfZeroDegrees ==
    /\ manip.enabled
    /\ manip.type = MANIP_DRAG_ROTATE
    /\ RotationBone # NoBone
    /\ Round5(CleanedRotation[1].degrees)
           = Round5(CleanedRotation[Len(CleanedRotation)].degrees)

\* the ranges were validated: the primary directive is in the sink and the
\* list is not empty, on a version of the detent threshold or later
Validated ==
    /\ Collected
    /\ cockpitAttributes # <<>>
    /\ manip.type \in DetentTypes
    /\ VerGeDetent(version)
    /\ manip.axis_detent_ranges # <<>>

\* ... and passed
Accepted == Validated /\ "ATTR_axis_detent_range" \in AttributeNames

\* v1_min, v1_max and lift_at_max, as the primary directive carries them
EmittedV1Min ==
    IF manip.type = MANIP_DRAG_AXIS_DETENT
    THEN cockpitAttributes[1].value[1][5] ELSE cockpitAttributes[1].value[1][11]

EmittedV1Max ==
    IF manip.type = MANIP_DRAG_AXIS_DETENT
    THEN cockpitAttributes[1].value[1][6] ELSE cockpitAttributes[1].value[1][12]

EmittedLiftAtMax ==
    IF manip.type = MANIP_DRAG_AXIS_DETENT
    THEN get_lift_at_max(xplaneBone) ELSE cockpitAttributes[1].value[1][10]

\* the list covers [lo, hi] without gaps
Tiles(ranges, lo, hi) ==
    /\ ranges[1].start = lo
    /\ ranges[Len(ranges)].end = hi
    /\ \A i \in 1..(Len(ranges) - 1) : ranges[i].end = ranges[i + 1].start

\* every range has start <= end and a height within [0, lift]
WithinBounds(ranges, lift) ==
    \A i \in 1..Len(ranges) :
        /\ ranges[i].start <= ranges[i].end
        /\ 0 <= ranges[i].height /\ ranges[i].height <= lift

\* the height of the i-th range's neighbour, infinite at the open ends
NeighbourHeight(ranges, i) ==
    IF i < 1 \/ i > Len(ranges) THEN INFINITY ELSE ranges[i].height

\* some stop pit is not strictly lower than both its neighbours
SomePitNotLower(ranges) ==
    \E i \in 1..Len(ranges) :
        /\ ranges[i].start = ranges[i].end
        /\ ~(/\ ranges[i].height < NeighbourHeight(ranges, i - 1)
             /\ ranges[i].height < NeighbourHeight(ranges, i + 1))

(***************************************************************************)
(* The claims.                                                             *)
(***************************************************************************)
\* C1: classification is all-or-nothing: when collect() returns having
\* reported an error, no directive at all is in the sink.
C1_AllOrNothing ==
    (pc = "returned" /\ hasErrors(messages)) => cockpitAttributes = <<>>

\* a rejected range list behind the two directives added before it was looked at
C1_DirectivesBeforeRejection ==
    /\ pc = "returned"
    /\ manip.type = MANIP_DRAG_AXIS_DETENT
    /\ ErrorReported("Axis detent range list must end at Dataref 1's maximum value")
    /\ AttributeNames = {"ATTR_manip_drag_axis", "ATTR_axis_detented"}

\* C2: on an enabled manipulator of an unrecognized type collect() logs one
\* error ('Manipulator type is unknown or unimplemented'), raises, and adds
\* no directive.
C2_UnknownTypeRaises ==
    (Collected /\ manip.enabled /\ manip.type \notin RecognizedTypes) =>
        /\ pc = "raised"
        /\ messages = <<[type |-> "error",
                         message |-> "Manipulator type is unknown or unimplemented"]>>
        /\ cockpitAttributes = <<>>

C2_UnknownTypeRaised ==
    /\ pc = "raised"
    /\ manip.enabled
    /\ manip.type = MANIP_UNKNOWN
    /\ Len(findErrors(messages)) = 1

\* C3: on every recognized type collect() returns normally, whatever the
\* bones, animations and ranges: only an unrecognized type makes it raise.
C3_RecognizedTypesReturn ==
    (Collected /\ manip.type \in RecognizedTypes) => pc = "returned"

\* a drag_rotate on a rotating bone that has no parent: the assertion of
\* autodetect_parent_must_be_animated_for_rotation fails, nothing is logged
C3_RotatingRootRaised ==
    /\ pc = "raised"
    /\ manip.type = MANIP_DRAG_ROTATE
    /\ xplaneBone.parent = NoBone
    /\ isDataRefAnimatedForRotation(xplaneBone)
    /\ messages = <<>>

\* C4: collect() never mutates the manipulator settings: every field, dataref1
\* and dataref2 included, is after collect() what it was before.
C4_ManipUnchanged == [][manip' = manip]_vars

\* autodetect_datarefs on a drag_rotate: the user's dataref1 is gone
C4_DatarefsOverwritten ==
    /\ pc = "returned"
    /\ manip.type = MANIP_DRAG_ROTATE
    /\ manip.autodetect_datarefs
    /\ manip.dataref1 = "sim/rot"
    /\ manip.dataref2 = "none"

\* C5: a drag_axis_detent whose drag axis and detent directions, or a
\* drag_rotate whose rotation axis and animated detent direction, have a dot
\* product outside [-0.01, 0.01] gets exactly one error and no directive.
C5_NotOrthogonalRejected ==
    (Collected /\ (DragAxisNotOrthogonal \/ DragRotateNotOrthogonal)) =>
        /\ pc = "returned"
        /\ Len(findErrors(messages)) = 1
        /\ cockpitAttributes = <<>>

C5_RejectedForDirection ==
    /\ pc = "returned"
    /\ DragAxisNotOrthogonal
    /\ messages = <<[type |-> "error",
                     message |-> "Location animation must not be along the main drag animation axis"]>>

\* C6: a drag_rotate whose rotation keyframes, after clamp filtering, start and
\* end at the same angle at 5 decimals is rejected: no ATTR_manip_drag_rotate
\* directive ever carries angle1 equal to angle2 at 5 decimals.
C6_ZeroDegreesRejected ==
    /\ (Collected /\ RotationOfZeroDegrees) => cockpitAttributes = <<>>
    /\ \A i \in 1..Len(cockpitAttributes) :
           cockpitAttributes[i].name = "ATTR_manip_drag_rotate" =>
               Round5(cockpitAttributes[i].value[1][8])
                   # Round5(cockpitAttributes[i].value[1][9])

\* a rotation of 0.000004 degrees, rejected by the test at 5 decimals
C6_RejectedForZeroDegrees ==
    /\ pc = "returned"
    /\ RotationOfZeroDegrees
    /\ CleanedRotation[1].degrees # CleanedRotation[Len(CleanedRotation)].degrees
    /\ ErrorReported("0 degree rotation not allowed")
    /\ cockpitAttributes = <<>>

\* C7: a validated list that passes the endpoint, bounds and contiguity checks
\* is rejected if and only if some stop pit (start = end) is not strictly
\* lower than both its previous and its next range.
C7_StopPitRule ==
    (/\ pc = "returned"
     /\ Validated
     /\ Tiles(manip.axis_detent_ranges, EmittedV1Min, EmittedV1Max)
     /\ WithinBounds(manip.axis_detent_ranges, EmittedLiftAtMax)) =>
        (~Accepted <=> SomePitNotLower(manip.axis_detent_ranges))

\* a pit at the head of the list, lower than its one neighbour, rejected
C7_FirstPitRejected ==
    /\ pc = "returned"
    /\ manip.type = MANIP_DRAG_AXIS_DETENT
    /\ manip.axis_detent_ranges =
           <<AxisDetentRange(0, 0, 200), AxisDetentRange(0, 5, 1000),
             AxisDetentRange(5, 10, 200)>>
    /\ ErrorReported("Stop pit must be lower than previous and next detent ranges")

\* C8: every accepted list covers [v1_min, v1_max] without gaps, and a
\* validated list that does not is rejected with an error, no
\* ATTR_axis_detent_range directive being added.
C8_AcceptedListsTile ==
    /\ Accepted => Tiles(manip.axis_detent_ranges, EmittedV1Min, EmittedV1Max)
    /\ (Validated /\ ~Tiles(manip.axis_detent_ranges, EmittedV1Min, EmittedV1Max)) =>
           (hasErrors(messages) /\ "ATTR_axis_detent_range" \notin AttributeNames)

\* a list with a gap on a drag_rotate without detent bone: an exception, no error
C8_GapRaised ==
    /\ pc = "raised"
    /\ Validated
    /\ ~HasDetentBone
    /\ ~Tiles(manip.axis_detent_ranges, EmittedV1Min, EmittedV1Max)
    /\ messages = <<>>

\* C9: every accepted list has start <= end and 0 <= height <= lift_at_max in
\* each range, and a validated list with a range that breaks either bound is
\* rejected with an error.
C9_AcceptedListsWithinBounds ==
    /\ Accepted => WithinBounds(manip.axis_detent_ranges, EmittedLiftAtMax)
    /\ (Validated /\ ~WithinBounds(manip.axis_detent_ranges, EmittedLiftAtMax)) =>
           (hasErrors(messages) /\ ~Accepted)

\* a height above the lift on a drag_rotate without detent bone: an
\* exception, no error
C9_TooHighRaised ==
    /\ pc = "raised"
    /\ Validated
    /\ ~HasDetentBone
    /\ Tiles(manip.axis_detent_ranges, EmittedV1Min, EmittedV1Max)
    /\ ~WithinBounds(manip.axis_detent_ranges, EmittedLiftAtMax)
    /\ messages = <<>>

\* C10: on a version of the detent threshold or later, a manipulator of a
\* detent type whose detent bone is animated for translation and whose range
\* list is empty is rejected with the error 'Must have axis detent range if
\* ... has location animation'.
C10_EmptyListRejected ==
    (/\ pc = "returned"
     /\ manip.enabled
     /\ manip.type \in DetentTypes
     /\ VerGeDetent(version)
     /\ HasDetentBone
     /\ isDataRefAnimatedForTranslation(xplaneBone)
     /\ manip.axis_detent_ranges = <<>>) =>
        \/ ErrorReported("Must have axis detent range if bone has location animation")
        \/ (hasErrors(messages) /\ cockpitAttributes = <<>>)

\* an animated detent bone without ranges, emitted without a word
C10_EmptyListEmitted ==
    /\ pc = "returned"
    /\ manip.type = MANIP_DRAG_AXIS_DETENT
    /\ VerGeDetent(version)
    /\ isDataRefAnimatedForTranslation(xplaneBone)
    /\ manip.axis_detent_ranges = <<>>
    /\ messages = <<>>
    /\ AttributeNames = {"ATTR_manip_drag_axis", "ATTR_axis_detented"}

\* the settings of each variant without topology rules, in the documented
\* order of its directive, cursor and tooltip left out
VariantFields(type) ==
    CASE type = MANIP_DRAG_XY ->
            <<"dx", "dy", "v1_min", "v1_max", "v2_min", "v2_max", "dataref1", "dataref2">>
      [] type = MANIP_DRAG_AXIS -> <<"dx", "dy", "dz", "v1", "v2", "dataref1">>
      [] type = MANIP_DRAG_AXIS_PIX -> <<"dx", "step", "exp", "v1", "v2", "dataref1">>
      [] type = MANIP_COMMAND -> <<"command">>
      [] type = MANIP_COMMAND_AXIS ->
            <<"dx", "dy", "dz", "positive_command", "negative_command">>
      [] type \in {MANIP_COMMAND_KNOB, MANIP_COMMAND_SWITCH_UP_DOWN,
                   MANIP_COMMAND_SWITCH_LEFT_RIGHT} ->
            <<"positive_command", "negative_command">>
      [] type \in {MANIP_COMMAND_KNOB2, MANIP_COMMAND_SWITCH_UP_DOWN2,
                   MANIP_COMMAND_SWITCH_LEFT_RIGHT2} -> <<"command">>
      [] type = MANIP_PUSH -> <<"v_down", "v_up", "dataref1">>
      [] type = MANIP_RADIO -> <<"v_down", "dataref1">>
      [] type = MANIP_TOGGLE -> <<"v_on", "v_off", "dataref1">>
      [] type \in {MANIP_DELTA, MANIP_WRAP} ->
            <<"v_down", "v_hold", "v1_min", "v1_max", "dataref1">>
      [] type \in {MANIP_AXIS_SWITCH_UP_DOWN, MANIP_AXIS_SWITCH_LEFT_RIGHT} ->
            <<"v1", "v2", "click_step", "hold_step", "dataref1">>
      [] type = MANIP_NOOP -> <<"dataref1">>

\* the values of the named settings, in the order of the names
FieldValues(m, names) == [i \in 1..Len(names) |-> m[names[i]]]

\* the directives of the sink that are not the mouse wheel's
PrimaryDirectives ==
    SelectSeq(cockpitAttributes, LAMBDA a : a.name # "ATTR_manip_wheel")

\* collect() ran on an enabled manipulator of a variant without topology rules
SimpleCollected == Collected /\ manip.enabled /\ manip.type \in SimpleTypes

\* no error, and one primary directive ATTR_manip_<type> carrying value
OnePrimaryDirective(value) ==
    /\ pc = "returned"
    /\ ~hasErrors(messages)
    /\ PrimaryDirectives = <<XPlaneAttribute("ATTR_manip_" \o manip.type, value)>>

\* C11: an enabled manipulator of a variant without topology rules gets no
\* error and exactly one primary directive ATTR_manip_<type>, whose value is
\* the variant's settings in their fixed order followed by the tooltip, with
\* the cursor in front for every variant but noop, which carries no cursor.
C11_FieldOrder ==
    SimpleCollected =>
        OnePrimaryDirective(
            (IF manip.type = MANIP_NOOP THEN <<>> ELSE <<manip.cursor>>)
                \o FieldValues(manip, VariantFields(manip.type))
                \o <<manip.tooltip>>)

\* the same with the cursor in front for every variant, noop included
C11_CursorFirst ==
    SimpleCollected =>
        OnePrimaryDirective(
            <<manip.cursor>> \o FieldValues(manip, VariantFields(manip.type))
                \o <<manip.tooltip>>)

\* a noop manipulator, emitted as (dataref1, tooltip)
C11_NoopWithoutCursor ==
    /\ pc = "returned"
    /\ manip.type = MANIP_NOOP
    /\ cockpitAttributes # <<>>
    /\ cockpitAttributes[1].value[1] = <<manip.dataref1, manip.tooltip>>

\* the directives of the sink of the given name, in the order they were added
DirectivesNamed(name) == SelectSeq(cockpitAttributes, LAMBDA a : a.name = name)

\* collect() ran on a manipulator of a detent type below the detent threshold
BelowDetentThreshold ==
    Collected /\ manip.type \in DetentTypes /\ version < VERSION_1110

\* neither detent directive is in the sink, and a collect() that emitted the
\* primary directive went on to its end without an error
DetentDirectivesOmitted ==
    /\ "ATTR_axis_detented" \notin AttributeNames
    /\ "ATTR_axis_detent_range" \notin AttributeNames
    /\ cockpitAttributes # <<>> => (pc = "returned" /\ ~hasErrors(messages))

KindOf(name) ==
    IF name = "ATTR_axis_detented" THEN 2
    ELSE IF name = "ATTR_axis_detent_range" THEN 3
    ELSE IF name = "ATTR_manip_keyframe" THEN 4
    ELSE IF name = "ATTR_manip_wheel" THEN 5
    ELSE 1

\* the values carried by the directives of the given name, in sink order
ValuesNamed(name) ==
    [i \in 1..Len(DirectivesNamed(name)) |-> DirectivesNamed(name)[i].value[1]]

\* the configured ranges, as (start, end, height)
ConfiguredRanges ==
    [i \in 1..Len(manip.axis_detent_ranges) |->
        <<manip.axis_detent_ranges[i].start, manip.axis_detent_ranges[i].end,
          manip.axis_detent_ranges[i].height>>]

\* the cleaned rotation keyframes between the first and the last, as
\* (value, degrees)
InteriorKeyframes ==
    [i \in 1..(Len(CleanedRotation) - 2) |->
        <<CleanedRotation[i + 1].value, CleanedRotation[i + 1].degrees>>]

\* C13: the directives of one collect() are in the sink in the order primary,
\* ATTR_axis_detented (drag_axis_detent only), the ATTR_axis_detent_range in
\* list order, the ATTR_manip_keyframe in keyframe order (drag_rotate only);
\* a drag_axis_detent's primary directive is named ATTR_manip_drag_axis.
C13_EmissionOrder ==
    Collected =>
        /\ \A i, j \in 1..Len(cockpitAttributes) :
               i < j => KindOf(cockpitAttributes[i].name)
                            <= KindOf(cockpitAttributes[j].name)
        /\ cockpitAttributes # <<>> =>
               /\ KindOf(cockpitAttributes[1].name) = 1
               /\ \A i \in 2..Len(cockpitAttributes) :
                      KindOf(cockpitAttributes[i].name) > 1
        /\ "ATTR_axis_detented" \in AttributeNames =>
               manip.type = MANIP_DRAG_AXIS_DETENT
        /\ "ATTR_manip_keyframe" \in AttributeNames =>
               /\ manip.type = MANIP_DRAG_ROTATE
               /\ ValuesNamed("ATTR_manip_keyframe") = InteriorKeyframes
        /\ "ATTR_axis_detent_range" \in AttributeNames =>
               ValuesNamed("ATTR_axis_detent_range") = ConfiguredRanges
        /\ (manip.type = MANIP_DRAG_AXIS_DETENT /\ cockpitAttributes # <<>>) =>
               cockpitAttributes[1].name = "ATTR_manip_drag_axis"

\* a drag_rotate with a range and two interior keyframes
C13_RangeThenKeyframes ==
    /\ pc = "returned"
    /\ [i \in 1..Len(cockpitAttributes) |-> cockpitAttributes[i].name]
           = <<"ATTR_manip_drag_rotate", "ATTR_axis_detent_range",
               "ATTR_manip_keyframe", "ATTR_manip_keyframe">>
    /\ ValuesNamed("ATTR_manip_keyframe") = <<<<3, Deg(30)>>, <<6, Deg(60)>>>>

\* C14: a collect() that completes on an enabled manipulator adds
\* ATTR_manip_wheel exactly when the type is mouse-wheel capable, wheel_delta
\* is not zero and the version is 10.50 or later; the directive is then added
\* once, carries wheel_delta and is the last of the sink.
C14_WheelRule ==
    (pc = "returned" /\ manip.enabled) =>
        /\ "ATTR_manip_wheel" \in AttributeNames <=>
               /\ manip.type \in MOUSE_WHEEL_MANIPULATORS
               /\ manip.wheel_delta # 0
               /\ version >= VERSION_1050
        /\ "ATTR_manip_wheel" \in AttributeNames =>
               /\ ValuesNamed("ATTR_manip_wheel") = <<manip.wheel_delta>>
               /\ cockpitAttributes[Len(cockpitAttributes)].name = "ATTR_manip_wheel"

\* version 9.00, below the wheel threshold, with the wheel directive emitted
C14_WheelOnVersion900 ==
    /\ pc = "returned"
    /\ version = VERSION_900
    /\ manip.type = MANIP_PUSH
    /\ manip.wheel_delta = 1
    /\ [i \in 1..Len(cockpitAttributes) |-> cockpitAttributes[i].name]
           = <<"ATTR_manip_push", "ATTR_manip_wheel">>

\* collect() accepted a drag_rotate manipulator without detent bone, without
\* ranges, whose rotation has two keyframes after clamp filtering
PlainDragRotate ==
    /\ pc = "returned"
    /\ ~hasErrors(messages)
    /\ manip.enabled
    /\ manip.type = MANIP_DRAG_ROTATE
    /\ ~HasDetentBone
    /\ manip.axis_detent_ranges = <<>>
    /\ RotationBone # NoBone
    /\ Len(CleanedRotation) = 2

\* C15: a valid drag_rotate without detent bone, with no ranges and two
\* non-clamping rotation keyframes gets one directive, ATTR_manip_drag_rotate,
\* with the first and last keyframe degrees as angle1 and angle2 and lift,
\* v2_min and v2_max 0; every ATTR_manip_drag_rotate has v2_min = 0 and
\* v2_max = lift.
C15_PlainDragRotate ==
    /\ PlainDragRotate =>
           /\ Len(cockpitAttributes) = 1
           /\ cockpitAttributes[1].name = "ATTR_manip_drag_rotate"
           /\ cockpitAttributes[1].value[1][8] = CleanedRotation[1].degrees
           /\ cockpitAttributes[1].value[1][9] = CleanedRotation[2].degrees
           /\ cockpitAttributes[1].value[1][10] = 0
           /\ cockpitAttributes[1].value[1][13] = 0
           /\ cockpitAttributes[1].value[1][14] = 0
    /\ \A i \in 1..Len(cockpitAttributes) :
           cockpitAttributes[i].name = "ATTR_manip_drag_rotate" =>
               /\ cockpitAttributes[i].value[1][13] = 0
               /\ cockpitAttributes[i].value[1][14] = cockpitAttributes[i].value[1][10]

\* the manipulator on a bone rotating from 0 to 90 degrees
C15_ZeroToNinety ==
    /\ PlainDragRotate
    /\ isDataRefAnimatedForRotation(xplaneBone)
    /\ Len(cockpitAttributes) = 1
    /\ SubSeq(cockpitAttributes[1].value[1], 8, 14) = <<0, Deg(90), 0, 0, 10, 0, 0>>

\* collect() went to its end: the primary directive is in the sink and a
\* range list that was validated passed
Completed == cockpitAttributes # <<>> /\ (Validated => Accepted)

\* collect() returned from an enabled drag_rotate manipulator
DragRotateReturned ==
    pc = "returned" /\ manip.enabled /\ manip.type = MANIP_DRAG_ROTATE

\* C16: a collect() of a drag_rotate manipulator that a validation rule
\* rejects logs exactly one error, and one that completes logs none.
C16_OneErrorPerRejection ==
    DragRotateReturned =>
        Len(findErrors(messages)) = IF Completed THEN 0 ELSE 1

\* a rotation bone driven by two datarefs: one error, nothing emitted
C16_TwoDatarefsOneError ==
    /\ DragRotateReturned
    /\ RotationBone # NoBone
    /\ Len(RotationBone[1].animations) = 2
    /\ Len(findErrors(messages)) = 1
    /\ cockpitAttributes = <<>>

\* the errors of the rules that come before the keyframe-order check
BeforeOrderCheck ==
    {"location animation cannot be driven by more than n datarefs",
     "must have exactly n keyframes for its location animation",
     "detent animation has keyframes but no change between them",
     "parent must be animated with rotation",
     "is invalid: manipulators have specific parent-child relationships and animation requirements",
     "manipulator can only rotate around n axis"}

\* collect() of a drag_rotate manipulator came to the keyframe-order check
OrderCheckReached ==
    DragRotateReturned /\ \A message \in BeforeOrderCheck : ~ErrorReported(message)

\* the dataref values of the rotation keyframes of the active axis
RotationValues ==
    [i \in 1..Len(FirstAnimation(RotationBone[1]).keyframes) |->
        FirstAnimation(RotationBone[1]).keyframes[i].value]

StrictlyAscending(seq) == \A i \in 1..(Len(seq) - 1) : seq[i] < seq[i + 1]
StrictlyDescending(seq) == \A i \in 1..(Len(seq) - 1) : seq[i] > seq[i + 1]

OrderErrorReported ==
    ErrorReported("Rotation dataref values are not in ascending or descending order")

\* C17: the keyframe-order check of drag_rotate accepts the rotation keyframes
\* exactly when their values are strictly ascending or strictly descending,
\* and rejects any other order with the 'not in ascending or descending
\* order' error.
C17_AscendingOrDescending ==
    OrderCheckReached =>
        (~OrderErrorReported <=>
            (StrictlyAscending(RotationValues) \/ StrictlyDescending(RotationValues)))

\* dataref values 10, 0: a descending sequence, rejected
C17_DescendingRejected ==
    /\ DragRotateReturned
    /\ RotationBone # NoBone
    /\ RotationValues = <<10, 0>>
    /\ messages = <<[type |-> "error",
                     message |-> "Rotation dataref values are not in ascending or descending order"]>>
    /\ cockpitAttributes = <<>>

\* collect() of a drag_rotate manipulator came to the check of the axes
AxisCheckReached ==
    DragRotateReturned
        /\ \A message \in BeforeOrderCheck \ {"manipulator can only rotate around n axis"} :
               ~ErrorReported(message)

\* of a table of three axes, those whose keyframe degrees do not sum to zero
ActiveOfThree ==
    {a \in 1..3 :
        SumDegrees([i \in 1..Len(FirstAnimation(RotationBone[1]).keyframes) |->
            [degrees |-> FirstAnimation(RotationBone[1]).keyframes[i].degrees[a]]]) # 0}

AxisErrorReported == ErrorReported("manipulator can only rotate around n axis")

\* C18: a drag_rotate is rejected with the 'can only rotate around 1 axis'
\* error, and emits nothing, exactly when the rotation table of its rotation
\* bone has three axes of which none or more than one is active, an axis
\* being active when its keyframes' signed degrees do not sum to zero; a
\* table of one axis always passes.
C18_OneActiveAxis ==
    AxisCheckReached =>
        /\ AxisErrorReported <=>
               /\ Len(FirstAnimation(RotationBone[1]).axes) = 3
               /\ Cardinality(ActiveOfThree) # 1
        /\ AxisErrorReported => cockpitAttributes = <<>>

\* a rotation from -45 to 45 degrees about Z in an Euler mode: no active axis
C18_NoActiveAxisRejected ==
    /\ AxisCheckReached
    /\ Len(FirstAnimation(RotationBone[1]).axes) = 3
    /\ ActiveOfThree = {}
    /\ messages = <<[type |-> "error",
                     message |-> "manipulator can only rotate around n axis"]>>
    /\ cockpitAttributes = <<>>

\* C19: a manipulator of a detent type whose detent bone has children is
\* rejected with the 'must have no children' error and emits nothing.
C19_DetentBoneIsLeaf ==
    (/\ Collected
     /\ manip.enabled
     /\ manip.type \in DetentTypes
     /\ HasDetentBone
     /\ xplaneBone.children > 0) =>
        /\ pc = "returned"
        /\ ErrorReported("manipulator must have no children")
        /\ cockpitAttributes = <<>>

\* a drag_axis_detent on a bone with a child, emitted without an error
C19_BoneWithChildEmitted ==
    /\ pc = "returned"
    /\ manip.type = MANIP_DRAG_AXIS_DETENT
    /\ xplaneBone.children = 1
    /\ version = VERSION_1110
    /\ ~hasErrors(messages)
    /\ AttributeNames = {"ATTR_manip_drag_axis", "ATTR_axis_detented"}

\* collect() ran on an enabled drag_axis_detent whose bone has a parent, both
\* bones being driven by exactly one dataref
DetentTopologyPassed ==
    /\ Collected
    /\ manip.enabled
    /\ manip.type = MANIP_DRAG_AXIS_DETENT
    /\ xplaneBone.parent # NoBone
    /\ Len(xplaneBone.parent[1].animations) = 1
    /\ Len(xplaneBone.animations) = 1

\* the translation keyframes of the two channels after clamp filtering
DragAxisKeyframeCount ==
    Len(getTranslationKeyframeTableNoClamps(FirstAnimation(xplaneBone.parent[1])))

DetentKeyframeCount ==
    Len(getTranslationKeyframeTableNoClamps(FirstAnimation(xplaneBone)))

\* collect() returned with the given error alone and nothing in the sink
RejectedWith(message) ==
    /\ pc = "returned"
    /\ messages = <<[type |-> "error", message |-> message]>>
    /\ cockpitAttributes = <<>>

Coordinates == {-1000, -2, 0, 1, 300}
Vectors == {Vec(x, y, z) : x \in Coordinates, y \in Coordinates, z \in Coordinates}

\* (x, y, z) -> (x, z, -y)
XPlaneImage(v) == <<v[1], v[3], -v[2]>>

\* the three fields from the k-th on of the i-th directive
DirectiveVector(i, k) == SubSeq(cockpitAttributes[i].value[1], k, k + 2)

\* second minus first location of a bone's channel after clamp filtering
Direction(bone) ==
    SecondMinusFirst(getTranslationKeyframeTableNoClamps(FirstAnimation(bone)))

\* the two conversions are as documented and each undoes the other
ConversionsInverse ==
    \A v \in Vectors :
        /\ vec_b_to_x(v) = <<v[1], v[3], -v[2]>>
        /\ vec_x_to_b(v) = <<v[1], -v[3], v[2]>>
        /\ vec_x_to_b(vec_b_to_x(v)) = v
        /\ vec_b_to_x(vec_x_to_b(v)) = v

DirectiveV1Min(i) == cockpitAttributes[i].value[1][11]
DirectiveV1Max(i) == cockpitAttributes[i].value[1][12]

\* collect() returned from a drag_rotate whose first and last rotation
\* keyframe after clamp filtering have the same dataref value
SameFirstAndLastValue ==
    /\ DragRotateReturned
    /\ RotationBone # NoBone
    /\ CleanedRotation[1].value = CleanedRotation[Len(CleanedRotation)].value

\* C23: in every ATTR_manip_drag_rotate, v1_min is the dataref value of the
\* first and v1_max that of the last rotation keyframe after clamp filtering,
\* and they differ; a rotation whose first and last keyframe have the same
\* value is rejected with an error.
C23_V1FromFirstAndLast ==
    /\ \A i \in 1..Len(cockpitAttributes) :
           cockpitAttributes[i].name = "ATTR_manip_drag_rotate" =>
               /\ DirectiveV1Min(i) = CleanedRotation[1].value
               /\ DirectiveV1Max(i) = CleanedRotation[Len(CleanedRotation)].value
               /\ DirectiveV1Min(i) # DirectiveV1Max(i)
    /\ SameFirstAndLastValue =>
           /\ hasErrors(messages)
           /\ cockpitAttributes = <<>>

\* a rotation of 0, 45, 0, 90 degrees at the values 0, 3, 6, 10: the first
\* keyframe has the value 0 and the directive has v1_min 6
C23_V1MinOfLaterKeyframe ==
    /\ Collected
    /\ cockpitAttributes # <<>>
    /\ cockpitAttributes[1].name = "ATTR_manip_drag_rotate"
    /\ Len(CleanedRotation) = 4
    /\ CleanedRotation[1] = [value |-> 0, degrees |-> 0]
    /\ CleanedRotation[3] = [value |-> 6, degrees |-> 0]
    /\ DirectiveV1Min(1) = 6
    /\ DirectiveV1Max(1) = 10

\* collect() went to its end on an enabled drag_rotate manipulator
DragRotateAccepted == DragRotateReturned /\ Completed

\* the larger of two numbers
Max(a, b) == IF a >= b THEN a ELSE b

\* C24: an accepted drag_rotate with k rotation keyframes after clamp
\* filtering gets max(k - 2, 0) ATTR_manip_keyframe directives: the (value,
\* degrees) of the keyframes between the first and the last, in keyframe order.
C24_InteriorKeyframes ==
    DragRotateAccepted =>
        /\ Len(DirectivesNamed("ATTR_manip_keyframe"))
               = Max(Len(CleanedRotation) - 2, 0)
        /\ ValuesNamed("ATTR_manip_keyframe") = InteriorKeyframes

\* four keyframes at 0, 30, 60 and 90 degrees: a directive for the second and
\* one for the third
C24_TwoInteriorKeyframes ==
    /\ DragRotateAccepted
    /\ Len(CleanedRotation) = 4
    /\ ValuesNamed("ATTR_manip_keyframe") = <<<<3, Deg(30)>>, <<6, Deg(60)>>>>

IsPit(range) == range.start = range.end

\* a pit at the head or at the tail of the list
HasEndPit(ranges) == IsPit(ranges[1]) \/ IsPit(ranges[Len(ranges)])

\* a pit at the head is lower than the second range, a pit at the tail lower
\* than the last but one
EndPitsLower(ranges) ==
    /\ IsPit(ranges[1]) => ranges[1].height < ranges[2].height
    /\ IsPit(ranges[Len(ranges)]) =>
           ranges[Len(ranges)].height < ranges[Len(ranges) - 1].height

\* the pits between the first and the last range are lower than both neighbours
InteriorPitsLower(ranges) ==
    \A i \in 2..(Len(ranges) - 1) :
        IsPit(ranges[i]) =>
            /\ ranges[i].height < ranges[i - 1].height
            /\ ranges[i].height < ranges[i + 1].height

\* a validated list of two or more ranges that passes the endpoint, bounds
\* and contiguity checks and the pit rule of the interior ranges
WellFormedButForEndPits ==
    /\ pc = "returned"
    /\ Validated
    /\ Len(manip.axis_detent_ranges) >= 2
    /\ Tiles(manip.axis_detent_ranges, EmittedV1Min, EmittedV1Max)
    /\ WithinBounds(manip.axis_detent_ranges, EmittedLiftAtMax)
    /\ InteriorPitsLower(manip.axis_detent_ranges)

\* C25: in a list of two or more ranges, a stop pit that is the first or the
\* last range is judged against its one neighbour only: the list is accepted
\* when the pit is strictly lower than the adjacent range, whatever the
\* heights of the other ranges.
C25_EndPitsHaveOneNeighbour ==
    (/\ WellFormedButForEndPits
     /\ HasEndPit(manip.axis_detent_ranges)
     /\ EndPitsLower(manip.axis_detent_ranges)) =>
        Accepted

\* a drag_rotate with a pit of height 0.2 ahead of a range of height 1.0,
\* rejected for the last range's height of 0.2
C25_FirstPitJudgedByLastRange ==
    /\ pc = "returned"
    /\ manip.type = MANIP_DRAG_ROTATE
    /\ manip.axis_detent_ranges =
           <<AxisDetentRange(0, 0, 200), AxisDetentRange(0, 5, 1000),
             AxisDetentRange(5, 10, 200)>>
    /\ ~Accepted
    /\ messages = <<[type |-> "error",
                     message |-> "Stop pit must be lower than previous and next detent ranges"]>>

\* collect() ran on an enabled manipulator whose detent bone has one channel
\* of two keyframes after clamp filtering, both at the same position
DetentWithoutLift ==
    /\ Collected
    /\ manip.enabled
    /\ manip.type \in DetentTypes
    /\ HasDetentBone
    /\ Len(xplaneBone.animations) = 1
    /\ DetentKeyframeCount = 2
    /\ Direction(xplaneBone) = O

\* C26: on a drag_axis_detent and on a drag_rotate with an animated detent
\* bone, a detent bone whose two non-clamping keyframes are at the same
\* position is rejected with an error and nothing is emitted.
C26_DetentWithoutLiftRejected ==
    DetentWithoutLift => (hasErrors(messages) /\ cockpitAttributes = <<>>)

\* a drag_axis_detent whose detent bone does not move: emitted, no error
C26_DragAxisDetentWithoutLiftEmitted ==
    /\ DetentWithoutLift
    /\ pc = "returned"
    /\ manip.type = MANIP_DRAG_AXIS_DETENT
    /\ messages = <<>>
    /\ cockpitAttributes # <<>>
    /\ cockpitAttributes[1].name = "ATTR_manip_drag_axis"

\* collect() ran on an enabled drag_rotate without detent bone, with ranges,
\* on a version of the detent threshold or later
RangesWithoutDetentBone ==
    /\ Collected
    /\ manip.enabled
    /\ manip.type = MANIP_DRAG_ROTATE
    /\ ~HasDetentBone
    /\ manip.axis_detent_ranges # <<>>
    /\ version >= VERSION_1110

\* C27: a drag_rotate that has no detent bone but a non-empty range list, on
\* a version of the detent threshold or later, is rejected with a reported
\* error and gets no ATTR_axis_detent_range.
C27_RangesNeedDetentBone ==
    RangesWithoutDetentBone =>
        /\ hasErrors(messages)
        /\ "ATTR_axis_detent_range" \notin AttributeNames

\* the one range (0, 10, 0.0) on a bone that itself rotates over 0..10: an
\* exception, nothing logged, the primary directive in the sink
C27_RangesWithoutDetentBoneRaised ==
    /\ RangesWithoutDetentBone
    /\ pc = "raised"
    /\ manip.axis_detent_ranges = <<AxisDetentRange(0, 10, 0)>>
    /\ messages = <<>>
    /\ AttributeNames = {"ATTR_manip_drag_rotate"}

\* C29: collect() on a manipulator that is not enabled adds nothing to the
\* sink, logs nothing and returns, whatever the type.
C29_DisabledDoesNothing ==
    (Collected /\ ~manip.enabled) =>
        /\ cockpitAttributes = <<>>
        /\ messages = <<>>
        /\ pc = "returned"

\* a disabled manipulator of an unknown type with a wheel delta: nothing
C29_DisabledUnknownReturned ==
    /\ pc = "returned"
    /\ ~manip.enabled
    /\ manip.type = MANIP_UNKNOWN
    /\ manip.wheel_delta = 1
    /\ cockpitAttributes = <<>>
    /\ messages = <<>>

\* the positions in calls of the calls of the given operations
CallsOf(ops) == {i \in 1..Len(calls) : calls[i].op \in ops}

\* the largest member of a set of positions, 0 for none
Latest(positions) ==
    IF positions = {} THEN 0
    ELSE CHOOSE i \in positions : \A j \in positions : j <= i

\* the messages logged by the calls from position from to position to
LoggedBetween(from, to) ==
    [k \in 1..Len(SelectSeq(SubSeq(calls, from, to), LAMBDA c : c.op = "log")) |->
        [type |-> SelectSeq(SubSeq(calls, from, to), LAMBDA c : c.op = "log")[k].type,
         message |-> SelectSeq(SubSeq(calls, from, to),
                               LAMBDA c : c.op = "log")[k].message]]

\* the messages logged since the latest clearMessages() or clear()
LoggedSinceCleared ==
    LoggedBetween(Latest(CallsOf({"clearMessages", "clear"})) + 1, Len(calls))

\* the position of the call that added the transport function f
AddedAt(f) ==
    CHOOSE i \in CallsOf({"addTransport"}) :
        Cardinality({j \in CallsOf({"addTransport"}) : j <= i}) = f

\* the position of the call that removed it, beyond the end for none
RemovedAt(f) ==
    IF \E i \in CallsOf({"clearTransports", "clear"}) : i > AddedAt(f)
    THEN CHOOSE i \in CallsOf({"clearTransports", "clear"}) :
             /\ i > AddedAt(f)
             /\ \A j \in CallsOf({"clearTransports", "clear"}) :
                    j > AddedAt(f) => i <= j
    ELSE Len(calls) + 1

\* the types the transport function f was added for
SubscribedTypes(f) ==
    IF calls[AddedAt(f)].types = <<>>
    THEN {"error", "warning", "info", "success"}
    ELSE {calls[AddedAt(f)].types[1][k] : k \in 1..Len(calls[AddedAt(f)].types[1])}

\* the messages of its types logged while f was registered
LoggedFor(f) ==
    SelectSeq(LoggedBetween(AddedAt(f), RemovedAt(f) - 1),
              LAMBDA m : m.type \in SubscribedTypes(f))

\* C30: after any sequence of calls, findErrors() is the error messages
\* logged since the latest clearMessages() or clear(), in logging order,
\* hasErrors() is true exactly when there is one, and every transport has
\* been called, in logging order, with exactly the messages of its types
\* that were logged while it was registered.
C30_LoggerKeepsWhatWasLogged ==
    /\ findErrors(messages) = SelectSeq(LoggedSinceCleared, LAMBDA m : m.type = "error")
    /\ messages = LoggedSinceCleared
    /\ hasErrors(messages) <=> (findErrors(messages) # <<>>)
    /\ Len(delivered) = Cardinality(CallsOf({"addTransport"}))
    /\ \A f \in 1..Len(delivered) : delivered[f] = LoggedFor(f)

\* a transport for errors, an error, and the transports cleared
\* before a second error
C30_TransportGotFirstErrorOnly ==
    /\ Len(calls) = 4
    /\ calls[1] = Call("addTransport", "", "", <<<<"error">>>>)
    /\ calls[3].op = "clearTransports"
    /\ calls[4].op = "log"
    /\ findErrors(messages)
           = <<[type |-> "error", message |-> "first"],
               [type |-> "error", message |-> "second"]>>
    /\ delivered = <<<<[type |-> "error", message |-> "first"]>>>>

\* the value the last call was about, for a getValueAsString
AskedValue == getValue(attribute, returned[1].i)

\* getValueAsString was the last call and the value at its index is of the
\* given type
AskedForA(type) ==
    /\ returned # <<>>
    /\ returned[1].call = "getValueAsString"
    /\ AskedValue.type = type

Result == returned[1].result

\* reading a string as a decimal number: its sign, the digits before the
\* point and the digits behind it
IsNegative(s) == s # <<>> /\ s[1] = "-"
Unsigned(s) == IF IsNegative(s) THEN Tail(s) ELSE s
PointAt(s) == IF \E i \in 1..Len(s) : s[i] = "." THEN CHOOSE i \in 1..Len(s) : s[i] = "." ELSE 0
WholeChars(s) == IF PointAt(s) = 0 THEN s ELSE SubSeq(s, 1, PointAt(s) - 1)
FracChars(s) == IF PointAt(s) = 0 THEN <<>> ELSE SubSeq(s, PointAt(s) + 1, Len(s))

AllDigits(s) == \A i \in 1..Len(s) : \E d \in 0..9 : s[i] = DigitChar(d)

RECURSIVE NumberOf(_)
NumberOf(digits) ==
    IF digits = <<>> THEN 0
    ELSE 10 * NumberOf(SubSeq(digits, 1, Len(digits) - 1))
             + (CHOOSE d \in 0..9 : digits[Len(digits)] = DigitChar(d))

\* digits, without a leading zero unless the number is the one digit 0
IsBareNatural(s) == s # <<>> /\ AllDigits(s) /\ (Len(s) > 1 => s[1] # "0")

\* a bare integer: no point, no leading zeros, no -0
IsBareInteger(s) ==
    /\ IsBareNatural(Unsigned(s))
    /\ IsNegative(s) => Unsigned(s) # <<"0">>

\* an integer part, a point, and 1 to 8 digits of which the last is not 0
IsStrippedDecimal(s) ==
    /\ PointAt(Unsigned(s)) > 0
    /\ IsBareNatural(WholeChars(Unsigned(s)))
    /\ AllDigits(FracChars(Unsigned(s)))
    /\ Len(FracChars(Unsigned(s))) \in 1..8
    /\ FracChars(Unsigned(s))[Len(FracChars(Unsigned(s)))] # "0"

\* the number a string stands for, as [sign, whole, frac], frac in units
\* of 10^-8
WholeOf(s) == NumberOf(WholeChars(Unsigned(s)))
FracOf(s) == NumberOf(FracChars(Unsigned(s))) * 10 ^ (8 - Len(FracChars(Unsigned(s))))

\* the number of the string is the float n rounded to 8 decimal digits: no
\* multiple of 10^-8 is nearer to n, and the sign is n's unless it is 0
IsRoundedTo8(s, n) ==
    /\ WholeOf(s) - n.whole \in {0, 1}
    /\ (WholeOf(s) - n.whole) * 10 ^ 9 + 10 * FracOf(s) - n.frac \in -5..5
    /\ IsNegative(s) <=> (n.sign < 0 /\ (WholeOf(s) # 0 \/ FracOf(s) # 0))

\* C21: floatToStr(n) is n rounded to 8 decimal digits, written as the bare
\* integer when the rounded number is one and otherwise with its fractional
\* digits up to the last that is not 0: it never ends in '.' nor in a 0
\* behind the point; 1.0 gives "1", 1.5 gives "1.5", 0.100000001 gives "0.1".
C21_FloatToStr ==
    AskedForA("float") =>
        /\ Result # <<>>
        /\ IsBareInteger(Result) \/ IsStrippedDecimal(Result)
        /\ IsRoundedTo8(Result, AskedValue.v)
        /\ Result[Len(Result)] # "."
        /\ AskedValue = PyFloat(1, 1, 0) => Result = <<"1">>
        /\ AskedValue = PyFloat(1, 1, 500000000) => Result = <<"1", ".", "5">>
        /\ AskedValue = PyFloat(1, 0, 100000001) => Result = <<"0", ".", "1">>

\* 0.100000001 came out as "0.1", and -7.000000016 as "-7.00000002"
C21_NinthDigitRounded ==
    /\ AskedForA("float")
    /\ \/ AskedValue = PyFloat(1, 0, 100000001) /\ Result = <<"0", ".", "1">>
       \/ /\ AskedValue = PyFloat(-1, 7, 16)
          /\ Result = <<"-", "7", ".", "0", "0", "0", "0", "0", "0", "0", "2">>
    /\ Len(attribute.value) = 2
    /\ returned[1].i = 1

\* the strings of the values, one after the other
RECURSIVE Concatenated(_)
Concatenated(strings) ==
    IF strings = <<>> THEN <<>> ELSE Head(strings) \o Concatenated(Tail(strings))

\* C28: getValueAsString(i) is the empty string for None, floatToStr for a
\* float, the bare decimal for an int, str() for a bool and the string itself
\* for a str; getValuesAsString() is the getValueAsString(i) of all indices
\* in order, with nothing between them.
C28_ValuesAsStrings ==
    /\ AskedForA("NoneType") => Result = <<>>
    /\ AskedForA("float") => Result = floatToStr(AskedValue.v)
    /\ AskedForA("int") =>
           /\ IsBareInteger(Result)
           /\ NumberOf(Unsigned(Result)) * (IF IsNegative(Result) THEN -1 ELSE 1)
                  = AskedValue.v
    /\ AskedForA("bool") =>
           Result = IF AskedValue.v = 1 THEN <<"T", "r", "u", "e">>
                    ELSE <<"F", "a", "l", "s", "e">>
    /\ AskedForA("str") => Result = AskedValue.v
    /\ (returned # <<>> /\ returned[1].call = "getValuesAsString") =>
           Result = Concatenated([k \in 1..Len(attribute.value) |->
                                     getValueAsString(attribute, k - 1)])

\* the values 120 and 1.5: "120" and "1.5" make "1201.5"
C28_TwoValuesConcatenated ==
    /\ returned # <<>>
    /\ returned[1].call = "getValuesAsString"
    /\ Len(attribute.value) = 2
    /\ attribute.value[1].type = "int"
    /\ attribute.value[1].v = 120
    /\ attribute.value[2].type = "float"
    /\ Result = <<"1", "2", "0", "1", ".", "5">>

====
